---------------------------- MODULE Spec2Model ----------------------------
(***************************************************************************)
(* A model of claude-diary-hook (src/src/main.rs): the DiaryManager that   *)
(* folds a stream of input lines into an in-memory DiarySession and writes *)
(* it to the SQLite store diary.db, incrementally after every event and    *)
(* once more on finalization.                                              *)
(*                                                                         *)
(* Text is modelled by TLA+ strings, one string element per character.     *)
(* Option<T> is modelled by a sequence of length 0 (None) or 1 (Some).     *)
(***************************************************************************)
EXTENDS Integers, Sequences, FiniteSets, TLC

None == <<>>
Some(v) == <<v>>
IsSome(o) == o # <<>>
Unwrap(o) == o[1]

(***************************************************************************)
(* Characters and strings (std::str as main.rs uses it).                   *)
(***************************************************************************)
\* ASCII 32..95 and 97..126 in code order (96, the backquote, is left out).
AsciiLow == " !\"#$%&'()*+,-./0123456789:;<=>?@ABCDEFGHIJKLMNOPQRSTUVWXYZ[\\]^_"
AsciiHigh == "abcdefghijklmnopqrstuvwxyz{|}~"
UpperCase == "ABCDEFGHIJKLMNOPQRSTUVWXYZ"
LowerCase == "abcdefghijklmnopqrstuvwxyz"
Digits == "0123456789"

Char(s, i) == SubSeq(s, i, i)

CharsOf(s) == {Char(s, i) : i \in 1..Len(s)}

UpperChars == CharsOf(UpperCase)
WordChars == CharsOf(UpperCase) \cup CharsOf(LowerCase) \cup CharsOf(Digits) \cup {"_"}
AsciiChars == CharsOf(AsciiLow) \cup CharsOf(AsciiHigh) \cup {"\t", "\n", "\r"}

IndexIn(table, c) ==
    IF \E i \in 1..Len(table) : Char(table, i) = c
    THEN CHOOSE i \in 1..Len(table) : Char(table, i) = c
    ELSE 0

\* The first byte of the character's UTF-8 encoding; every character outside
\* ASCII that the model uses lies in U+0080..U+00FF (lead byte 0xC3, two bytes).
Ord(c) ==
    CASE c = "\t" -> 9
      [] c = "\n" -> 10
      [] c = "\r" -> 13
      [] IndexIn(AsciiLow, c) > 0 -> 31 + IndexIn(AsciiLow, c)
      [] IndexIn(AsciiHigh, c) > 0 -> 96 + IndexIn(AsciiHigh, c)
      [] OTHER -> 195

\* The bytes of the character's UTF-8 encoding.
Utf8Len(c) == IF c \in AsciiChars THEN 1 ELSE 2

\* str::len(): the length in bytes, one for every character and one more for
\* every character of two bytes.
ByteLen(s) == Len(s) + Cardinality({i \in 1..Len(s) : Utf8Len(Char(s, i)) = 2})

\* s.chars().take(n).collect::<String>()
TakeChars(s, n) == SubSeq(s, 1, IF n < Len(s) THEN n ELSE Len(s))

\* Whether byte offset n is a character boundary of s (str::is_char_boundary).
IsCharBoundary(s, n) == \E k \in 0..Len(s) : ByteLen(SubSeq(s, 1, k)) = n

\* &s[..n] where n is a character boundary: the characters of the first n bytes.
SliceTo(s, n) ==
    SubSeq(s, 1, CHOOSE k \in 0..Len(s) : ByteLen(SubSeq(s, 1, k)) = n)

LowerChar(c) ==
    IF c \in UpperChars THEN Char(LowerCase, IndexIn(UpperCase, c)) ELSE c

\* str::to_lowercase()
RECURSIVE to_lowercase(_)
to_lowercase(s) ==
    IF s = "" THEN "" ELSE LowerChar(Char(s, 1)) \o to_lowercase(Tail(s))

\* str::contains(pat)
contains(s, pat) ==
    \E i \in 1..(Len(s) - Len(pat) + 1) : SubSeq(s, i, i + Len(pat) - 1) = pat

IsWhitespace(c) == c \in {" ", "\t", "\n", "\r"}

\* str::trim()
trim(s) ==
    LET keep == {i \in 1..Len(s) : ~IsWhitespace(Char(s, i))}
    IN  IF keep = {} THEN ""
        ELSE SubSeq(s, CHOOSE i \in keep : \A j \in keep : i <= j,
                       CHOOSE i \in keep : \A j \in keep : j <= i)

\* str::lines().next(): None for the empty string, else the text before the
\* first line feed with one trailing carriage return removed.
FirstLine(s) ==
    IF s = "" THEN None
    ELSE LET nl == {i \in 1..Len(s) : Char(s, i) = "\n"}
             stop == IF nl = {} THEN Len(s) + 1
                     ELSE CHOOSE i \in nl : \A j \in nl : i <= j
             raw == SubSeq(s, 1, stop - 1)
         IN  Some(IF raw # "" /\ Char(raw, Len(raw)) = "\r"
                  THEN SubSeq(raw, 1, Len(raw) - 1) ELSE raw)

\* pattern.split('|')
RECURSIVE split(_, _)
split(s, sep) ==
    LET at == {i \in 1..Len(s) : Char(s, i) = sep}
    IN  IF at = {} THEN <<s>>
        ELSE LET i == CHOOSE k \in at : \A j \in at : k <= j
             IN  <<SubSeq(s, 1, i - 1)>> \o split(SubSeq(s, i + 1, Len(s)), sep)

\* The order of String (byte-wise lexicographic), as Vec<String>::sort uses it.
RECURSIVE StrLess(_, _)
StrLess(a, b) ==
    IF b = "" THEN FALSE
    ELSE IF a = "" THEN TRUE
    ELSE IF Char(a, 1) = Char(b, 1) THEN StrLess(Tail(a), Tail(b))
    ELSE Ord(Char(a, 1)) < Ord(Char(b, 1))

\* files.sort(); files.dedup(): the strings of S in ascending order, once each.
RECURSIVE SortDedup(_)
SortDedup(S) ==
    IF S = {} THEN <<>>
    ELSE LET m == CHOOSE x \in S : \A y \in S : x = y \/ StrLess(x, y)
         IN  <<m>> \o SortDedup(S \ {m})

Range(seq) == {seq[i] : i \in DOMAIN seq}


(***************************************************************************)
(* The classifier: prompt text and tool calls to accomplishments.          *)
(***************************************************************************)
Pattern(alternatives, category, default_description) ==
    [keywords |-> split(alternatives, "|"),
     category |-> category,
     default_description |-> default_description]

\* The pattern table of infer_accomplishments_from_prompt, in its order.
patterns ==
    << Pattern("write|create|implement|add|build|develop|code|program",
               "Code Development", "Implemented new functionality"),
       Pattern("fix|debug|resolve|solve|repair|correct",
               "Code Development", "Fixed code issues"),
       Pattern("refactor|optimize|improve|enhance|update",
               "Code Development", "Improved code quality"),
       Pattern("test|unit test|integration test",
               "Code Development", "Added tests"),
       Pattern("document|write docs|readme|comment|explain",
               "Documentation", "Created documentation"),
       Pattern("analyze|investigate|research|study|examine|explore|understand",
               "Analysis", "Analyzed codebase"),
       Pattern("find|search|look for|locate",
               "Code Search", "Searched for information"),
       Pattern("review|check|verify|validate",
               "Code Review", "Reviewed code"),
       Pattern("configure|setup|install|deploy|initialize",
               "System Operations", "Configured system"),
       Pattern("migrate|upgrade|update dependencies",
               "System Operations", "Updated dependencies"),
       Pattern("database|sql|query|schema|migration",
               "Database Operations", "Worked with database"),
       Pattern("ui|user interface|frontend|styling|css|design",
               "Frontend Development", "Worked on user interface"),
       Pattern("component|react|angular|vue",
               "Frontend Development", "Developed UI components"),
       Pattern("plan|organize|structure|architect|design",
               "Planning", "Planned project structure"),
       Pattern("todo|task|milestone|goal",
               "Project Management", "Managed tasks") >>

\* The extensions of file_patterns, each standing for [\w/.-]+\.<ext>.
file_patterns ==
    << "rs", "js", "ts", "py", "go", "java", "cpp", "c", "h",
       "json", "yaml", "yml", "toml", "md" >>

\* The first line of the prompt, trimmed.
CleanedPrompt(prompt) ==
    LET first == FirstLine(prompt)
    IN  trim(IF IsSome(first) THEN Unwrap(first) ELSE prompt)

\* &cleaned_prompt[..77] panics when byte 77 is inside a character.
DescriptionPanics(prompt) ==
    LET cleaned_prompt == CleanedPrompt(prompt)
    IN  ByteLen(cleaned_prompt) > 80 /\ ~IsCharBoundary(cleaned_prompt, 77)

generate_accomplishment_description(prompt, default) ==
    LET cleaned_prompt == CleanedPrompt(prompt)
    IN  IF ByteLen(cleaned_prompt) > 80
        THEN default \o ": " \o trim(SliceTo(cleaned_prompt, 77))
        ELSE IF ByteLen(cleaned_prompt) > 10
        THEN default \o ": " \o cleaned_prompt
        ELSE default

\* A character of the class [\w/.-].
IsPathChar(c) == c \in WordChars \/ c \in {"/", ".", "-"} \/ c \notin AsciiChars

\* The start of the run of class characters that ends at position i.
RECURSIVE RunStart(_, _)
RunStart(prompt, i) ==
    IF i > 1 /\ IsPathChar(Char(prompt, i - 1)) THEN RunStart(prompt, i - 1) ELSE i

\* regex.find_iter(prompt) for [\w/.-]+\.<ext>: leftmost, greedy and
\* non-overlapping. A match lies in one maximal run of class characters; it
\* starts where the run starts and ends with the run's last ".<ext>" that has
\* a class character before it, and what is left of the run holds no other.
FindIter(prompt, ext) ==
    LET suffix == "." \o ext
        width == Len(suffix)
        occurrences ==
            {k \in 2..(Len(prompt) - width + 1) :
                /\ SubSeq(prompt, k, k + width - 1) = suffix
                /\ IsPathChar(Char(prompt, k - 1))}
        SameRun(k, later) == RunStart(prompt, later) = RunStart(prompt, k)
    IN  {SubSeq(prompt, RunStart(prompt, k), k + width - 1) :
            k \in {o \in occurrences :
                    \A later \in occurrences : later > o => ~SameRun(o, later)}}

\* As extract_files_from_prompt without files.sort() and files.dedup(): the
\* matches in the order of the patterns.
RECURSIVE MatchesFrom(_, _)
MatchesFrom(prompt, i) ==
    IF i > Len(file_patterns) THEN <<>>
    ELSE SortDedup(FindIter(prompt, file_patterns[i])) \o MatchesFrom(prompt, i + 1)

ExtractFilesUnsorted(prompt) == MatchesFrom(prompt, 1)

extract_files_from_prompt(prompt) ==
    SortDedup(UNION {FindIter(prompt, file_patterns[i]) : i \in DOMAIN file_patterns})

Accomplishment(category, description, duration_ms, files_affected) ==
    [category |-> category,
     description |-> description,
     duration_ms |-> duration_ms,
     files_affected |-> files_affected]

\* A matching that compares the keywords with the prompt as it was typed.
MatchingPatternsCaseSensitive(prompt) ==
    {i \in DOMAIN patterns :
        \E k \in DOMAIN patterns[i].keywords :
            contains(prompt, patterns[i].keywords[k])}

\* The indexes of the patterns one of whose keywords the lower-cased prompt holds.
MatchingPatterns(prompt) ==
    LET prompt_lower == to_lowercase(prompt)
    IN  {i \in DOMAIN patterns :
            \E k \in DOMAIN patterns[i].keywords :
                contains(prompt_lower, patterns[i].keywords[k])}

\* As PromptAccomplishments without the break of the loop over the patterns:
\* an accomplishment for the first and for the last matching pattern.
PromptAccomplishmentsWithoutBreak(prompt, duration_ms) ==
    LET matching == MatchingPatterns(prompt)
        Of(i) == Accomplishment(
                    patterns[i].category,
                    generate_accomplishment_description(
                        prompt, patterns[i].default_description),
                    duration_ms,
                    extract_files_from_prompt(prompt))
    IN  IF matching # {}
        THEN LET first == CHOOSE i \in matching : \A j \in matching : i <= j
                 last == CHOOSE i \in matching : \A j \in matching : j <= i
             IN  IF first = last THEN << Of(first) >> ELSE << Of(first), Of(last) >>
        ELSE IF ByteLen(prompt) > 20
        THEN << Accomplishment(
                    "General",
                    generate_accomplishment_description(prompt, "Worked on project task"),
                    duration_ms,
                    extract_files_from_prompt(prompt)) >>
        ELSE <<>>

\* As PromptAccomplishments without the threshold of 20 bytes: a "General"
\* accomplishment for every prompt that matches no pattern.
PromptAccomplishmentsWithoutThreshold(prompt, duration_ms) ==
    LET matching == MatchingPatterns(prompt)
    IN  IF matching # {}
        THEN LET first == CHOOSE i \in matching : \A j \in matching : i <= j
             IN  << Accomplishment(
                        patterns[first].category,
                        generate_accomplishment_description(
                            prompt, patterns[first].default_description),
                        duration_ms,
                        extract_files_from_prompt(prompt)) >>
        ELSE << Accomplishment(
                    "General",
                    generate_accomplishment_description(prompt, "Worked on project task"),
                    duration_ms,
                    extract_files_from_prompt(prompt)) >>

\* The accomplishments the prompt adds: the first matching pattern's, else a
\* "General" one for a prompt of more than 20 bytes, else none.
PromptAccomplishments(prompt, duration_ms) ==
    LET matching == MatchingPatterns(prompt)
    IN  IF matching # {}
        THEN LET first == CHOOSE i \in matching : \A j \in matching : i <= j
             IN  << Accomplishment(
                        patterns[first].category,
                        generate_accomplishment_description(
                            prompt, patterns[first].default_description),
                        duration_ms,
                        extract_files_from_prompt(prompt)) >>
        ELSE IF ByteLen(prompt) > 20
        THEN << Accomplishment(
                    "General",
                    generate_accomplishment_description(prompt, "Worked on project task"),
                    duration_ms,
                    extract_files_from_prompt(prompt)) >>
        ELSE <<>>

categorize_tool(tool_name) ==
    CASE tool_name \in {"Edit", "Write", "MultiEdit"} -> "Code Development"
      [] tool_name \in {"Read", "Glob", "LS"} -> "Code Analysis"
      [] tool_name = "Bash" -> "System Operations"
      [] tool_name = "Grep" -> "Code Search"
      [] tool_name = "Task" -> "AI Collaboration"
      [] tool_name = "TodoWrite" -> "Project Management"
      [] tool_name = "WebFetch" -> "Research"
      [] OTHER -> "Other"

(***************************************************************************)
(* Events (ClaudeEvent, ToolCall).                                         *)
(***************************************************************************)
\* A serde_json::Value that is a string, and one that is a number.
JsonString(s) == [kind |-> "string", str |-> s]
JsonNumber(n) == [kind |-> "number", num |-> n]

\* ToolCall; parameters is None or Some(object), an object being a function
\* from its keys to values. result and success are never read.
ToolCall(tool_name, parameters, duration_ms) ==
    [tool_name |-> tool_name, parameters |-> parameters, duration_ms |-> duration_ms]

\* ClaudeEvent; timestamp, context and session_id are never read.
ClaudeEvent(event_type, user_prompt, assistant_response, tool_calls, duration_ms, error) ==
    [event_type |-> event_type,
     user_prompt |-> user_prompt,
     assistant_response |-> assistant_response,
     tool_calls |-> tool_calls,
     duration_ms |-> duration_ms,
     error |-> error]

(***************************************************************************)
(* The input. A line is its text and what serde_json::from_str makes of    *)
(* it: Some(event), or None when the text is no ClaudeEvent.               *)
(***************************************************************************)
Line(text, event) == [text |-> text, event |-> event]

PromptLine ==
    Line("{\"event_type\":\"user_prompt\",\"user_prompt\":\"Fix the bug in parser.go\"}",
         Some(ClaudeEvent("user_prompt", Some("Fix the bug in parser.go"),
                          None, None, None, None)))

ToolLine ==
    Line("{\"event_type\":\"tool_call\",\"tool_calls\":[{\"tool_name\":\"Bash\"},"
           \o "{\"tool_name\":\"Edit\",\"parameters\":{\"file_path\":\"src/main.rs\"}}],"
           \o "\"duration_ms\":120}",
         Some(ClaudeEvent("tool_call", None, None,
                          Some(<< ToolCall("Bash", None, None),
                                  ToolCall("Edit",
                                           Some([file_path |-> JsonString("src/main.rs")]),
                                           None) >>),
                          Some(120), None)))

ErrorLine ==
    Line("{\"event_type\":\"error\",\"error\":\"boom\"}",
         Some(ClaudeEvent("error", None, None, None, None, Some("boom"))))

EndLine ==
    Line("{\"event_type\":\"session_end\"}",
         Some(ClaudeEvent("session_end", None, None, None, None, None)))

BlankLine == Line("  ", None)

RawLine == Line("hello world", None)

Lines == {PromptLine, ToolLine, ErrorLine, EndLine, BlankLine, RawLine}

\* Events of several kinds that carry tool-call records and a duration.
BashLine ==
    Line("{\"event_type\":\"tool_call\",\"tool_calls\":[{\"tool_name\":\"Bash\"}],"
           \o "\"duration_ms\":380}",
         Some(ClaudeEvent("tool_call", None, None,
                          Some(<< ToolCall("Bash", None, None) >>),
                          Some(380), None)))

ResultLine ==
    Line("{\"event_type\":\"tool_result\",\"tool_calls\":[{\"tool_name\":\"Bash\"},"
           \o "{\"tool_name\":\"Bash\"}],\"duration_ms\":7}",
         Some(ClaudeEvent("tool_result", None, None,
                          Some(<< ToolCall("Bash", None, None),
                                  ToolCall("Bash", None, None) >>),
                          Some(7), None)))

NotificationLine ==
    Line("{\"event_type\":\"notification\",\"tool_calls\":[{\"tool_name\":\"Edit\"}],"
           \o "\"duration_ms\":40}",
         Some(ClaudeEvent("notification", None, None,
                          Some(<< ToolCall("Edit", None, None) >>),
                          Some(40), None)))

\* A tool_call event with a tool of no listed name, a record whose file_path
\* is a number, and a record of another tool with the file_path of ToolLine.
OddToolLine ==
    Line("{\"event_type\":\"tool_call\",\"tool_calls\":[{\"tool_name\":\"Deploy\"},"
           \o "{\"tool_name\":\"Read\",\"parameters\":{\"file_path\":7}},"
           \o "{\"tool_name\":\"Read\",\"parameters\":{\"file_path\":\"src/main.rs\"},"
           \o "\"duration_ms\":9}]}",
         Some(ClaudeEvent("tool_call", None, None,
                          Some(<< ToolCall("Deploy", None, None),
                                  ToolCall("Read", Some([file_path |-> JsonNumber(7)]), None),
                                  ToolCall("Read",
                                           Some([file_path |-> JsonString("src/main.rs")]),
                                           Some(9)) >>),
                          None, None)))

ToolLines == {ToolLine, BashLine, ResultLine, NotificationLine, BlankLine, RawLine}

\* Error events: texts of 4, 150 and 151 ASCII characters, a text of 150
\* characters and 151 bytes, and an event without a text.
RECURSIVE Repeat(_, _)
Repeat(text, n) == IF n = 0 THEN "" ELSE text \o Repeat(text, n - 1)

LongError == Repeat("disk full ", 16)

WideError == SubSeq(LongError, 1, 149) \o "é"

ErrorTexts == {"boom", SubSeq(LongError, 1, 150), SubSeq(LongError, 1, 151), WideError}

ErrorTextLine(text) ==
    Line("{\"event_type\":\"error\",\"error\":\"" \o text \o "\"}",
         Some(ClaudeEvent("error", None, None, None, None, Some(text))))

NoTextErrorLine ==
    Line("{\"event_type\":\"error\"}",
         Some(ClaudeEvent("error", None, None, None, None, None)))

ErrorLines ==
    {ErrorTextLine(text) : text \in ErrorTexts} \cup {NoTextErrorLine, BlankLine, RawLine}

(***************************************************************************)
(* Prompts of user_prompt events and of lines that are no ClaudeEvent.     *)
(***************************************************************************)
MaxWords == 2

Words == {"Fix", "document", "search", "now", "src/main.rs", "README.md"}

\* The texts of one to n words, a space between two words.
RECURSIVE Sentences(_)
Sentences(n) ==
    IF n <= 1 THEN Words
    ELSE Sentences(n - 1) \cup {s \o " " \o w : s \in Sentences(n - 1), w \in Words}

LongText ==
    "fix the bug_in_the_tokenizer_of_the_parser_module_and_its_callers_everywhere_in_this_workspace_today"

\* The first n characters of LongText, none of them outside ASCII.
PromptLengths == {10, 11, 80, 81, 90}

\* 86 bytes; bytes 77 and 78 are one character.
SplitCharText == SubSeq(LongText, 1, 76) \o "é" \o SubSeq(LongText, 78, 85)

\* 20 characters, 27 bytes, no keyword of any pattern.
ShortWideText == "déjà été là-bas déjà"

RepeatedFilesText == "edit src/main.rs and also src/main.rs again plus README.md"

PromptTexts ==
    Sentences(MaxWords)
    \cup {SubSeq(LongText, 1, n) : n \in PromptLengths}
    \cup {SplitCharText, RepeatedFilesText, ShortWideText}

\* The text as a line that is no ClaudeEvent, and as the user_prompt of one.
RawPromptLine(prompt) == Line(prompt, None)

EventPromptLine(prompt) ==
    Line("{\"event_type\":\"user_prompt\",\"user_prompt\":\"" \o prompt \o "\"}",
         Some(ClaudeEvent("user_prompt", Some(prompt), None, None, None, None)))

\* A session_start event without a prompt.
StartLine ==
    Line("{\"event_type\":\"session_start\"}",
         Some(ClaudeEvent("session_start", None, None, None, None, None)))

PromptLines ==
    {RawPromptLine(prompt) : prompt \in PromptTexts}
    \cup {EventPromptLine(prompt) : prompt \in PromptTexts}
    \cup {StartLine, BlankLine}

AllLines == Lines \cup ToolLines \cup {OddToolLine} \cup ErrorLines \cup PromptLines

\* line.trim().is_empty(), evaluated once for the lines of the input.
BlankLines == {BlankLine} \cup {l \in Lines : trim(l.text) = ""}

IsBlank(line) ==
    IF line \in AllLines THEN line \in BlankLines ELSE trim(line.text) = ""

\* The prompts the lines of the input can give process_event.
KnownPrompts ==
    {Unwrap(Unwrap(l.event).user_prompt) :
        l \in {x \in Lines : IsSome(x.event) /\ IsSome(Unwrap(x.event).user_prompt)}}
    \cup {l.text : l \in {x \in Lines : ~IsSome(x.event)}}
    \cup PromptTexts

\* PromptAccomplishments and DescriptionPanics of the known prompts, evaluated
\* once.
Classified ==
    [prompt \in KnownPrompts |->
        [accomplishments |-> IF DescriptionPanics(prompt) THEN <<>>
                             ELSE PromptAccomplishments(prompt, None),
         panics |-> DescriptionPanics(prompt)]]

infer_accomplishments_from_prompt(session, prompt, duration_ms) ==
    LET found == IF prompt \in KnownPrompts
                 THEN [i \in DOMAIN Classified[prompt].accomplishments |->
                          [Classified[prompt].accomplishments[i]
                              EXCEPT !.duration_ms = duration_ms]]
                 ELSE PromptAccomplishments(prompt, duration_ms)
    IN  [session EXCEPT !.accomplishments = @ \o found]

(***************************************************************************)
(* The accumulator (DiarySession) and what process_event folds into it.    *)
(***************************************************************************)
\* DiarySession::new() at time now.
NewSession(now) ==
    [start_time |-> now,
     end_time |-> None,
     objectives |-> <<>>,
     accomplishments |-> <<>>,
     issues |-> <<>>,
     files_modified |-> <<>>,
     tool_usage |-> <<>>,
     total_duration_ms |-> 0]

\* *map.entry(name).or_insert(0) += 1
Increment(map, name) ==
    [t \in DOMAIN map \cup {name} |->
        IF t = name THEN (IF name \in DOMAIN map THEN map[name] ELSE 0) + 1
        ELSE map[t]]

\* As CountToolCalls with one count for each tool name of the event instead of
\* one for each record.
CountToolNames(map, tool_calls) ==
    LET names == {tool_calls[i].tool_name : i \in DOMAIN tool_calls}
    IN  [t \in DOMAIN map \cup names |->
            (IF t \in DOMAIN map THEN map[t] ELSE 0) + (IF t \in names THEN 1 ELSE 0)]

RECURSIVE CountToolCalls(_, _)
CountToolCalls(map, tool_calls) ==
    IF tool_calls = <<>> THEN map
    ELSE CountToolCalls(Increment(map, Head(tool_calls).tool_name), Tail(tool_calls))

infer_objectives_and_accomplishments(session, event) ==
    IF IsSome(event.user_prompt)
    THEN LET prompt == Unwrap(event.user_prompt)
             objective == IF ByteLen(prompt) > 100 THEN TakeChars(prompt, 100)
                          ELSE prompt
         IN  infer_accomplishments_from_prompt(
                 [session EXCEPT !.objectives = Append(@, objective)],
                 prompt, event.duration_ms)
    ELSE session

\* As FilePathOf taking a file_path of any JSON kind for a path.
FilePathOfAnyValue(tool_call) ==
    IF /\ IsSome(tool_call.parameters)
       /\ "file_path" \in DOMAIN Unwrap(tool_call.parameters)
    THEN Some(IF Unwrap(tool_call.parameters)["file_path"].kind = "string"
              THEN Unwrap(tool_call.parameters)["file_path"].str
              ELSE ToString(Unwrap(tool_call.parameters)["file_path"].num))
    ELSE None

\* params.get("file_path").and_then(as_str) of a tool call.
FilePathOf(tool_call) ==
    IF /\ IsSome(tool_call.parameters)
       /\ "file_path" \in DOMAIN Unwrap(tool_call.parameters)
       /\ Unwrap(tool_call.parameters)["file_path"].kind = "string"
    THEN Some(Unwrap(tool_call.parameters)["file_path"].str)
    ELSE None

\* As ToolActivity with one accomplishment for the event: that of its first
\* tool-call record.
ToolActivityOncePerEvent(session, tool_calls) ==
    IF tool_calls = <<>> THEN session
    ELSE LET tool_call == Head(tool_calls)
             path == FilePathOf(tool_call)
         IN  [session EXCEPT
                 !.files_modified = @ \o path,
                 !.accomplishments =
                     Append(@, Accomplishment(
                                   categorize_tool(tool_call.tool_name),
                                   IF IsSome(path) THEN "Modified " \o Unwrap(path)
                                   ELSE "Used " \o tool_call.tool_name \o " tool",
                                   tool_call.duration_ms,
                                   path))]

RECURSIVE ToolActivity(_, _)
ToolActivity(session, tool_calls) ==
    IF tool_calls = <<>> THEN session
    ELSE LET tool_call == Head(tool_calls)
             path == FilePathOf(tool_call)
             accomplishment ==
                 Accomplishment(
                     categorize_tool(tool_call.tool_name),
                     IF IsSome(path) THEN "Modified " \o Unwrap(path)
                     ELSE "Used " \o tool_call.tool_name \o " tool",
                     tool_call.duration_ms,
                     path)
         IN  ToolActivity(
                 [session EXCEPT
                     !.files_modified = @ \o path,
                     !.accomplishments = Append(@, accomplishment)],
                 Tail(tool_calls))

process_tool_activity(session, event) ==
    IF IsSome(event.tool_calls) THEN ToolActivity(session, Unwrap(event.tool_calls))
    ELSE session

process_error(session, event) ==
    IF IsSome(event.error)
    THEN LET error_msg == Unwrap(event.error)
             issue == "Error encountered: " \o
                        (IF ByteLen(error_msg) > 150
                         THEN TakeChars(error_msg, 150) \o "..."
                         ELSE error_msg)
         IN  [session EXCEPT !.issues = Append(@, issue)]
    ELSE session

process_generic_activity(session, event) ==
    IF IsSome(event.assistant_response) /\ ByteLen(Unwrap(event.assistant_response)) > 50
    THEN [session EXCEPT !.accomplishments =
            Append(@, Accomplishment("Analysis", "Analysis and response provided",
                                     event.duration_ms, <<>>))]
    ELSE session

PromptEventTypes == {"session_start", "user_prompt", "message"}
ToolEventTypes == {"tool_call", "tool_result"}

\* As Accumulate with the duration added in the branch of tool_call and
\* tool_result only.
AccumulateTimingToolEvents(session, event, now) ==
    LET counted == IF IsSome(event.tool_calls)
                   THEN [session EXCEPT
                           !.tool_usage = CountToolCalls(@, Unwrap(event.tool_calls))]
                   ELSE session
        timed == IF IsSome(event.duration_ms) /\ event.event_type \in ToolEventTypes
                 THEN [counted EXCEPT !.total_duration_ms = @ + Unwrap(event.duration_ms)]
                 ELSE counted
    IN  CASE event.event_type \in PromptEventTypes ->
                infer_objectives_and_accomplishments(timed, event)
          [] event.event_type \in ToolEventTypes ->
                process_tool_activity(timed, event)
          [] event.event_type = "error" ->
                process_error(timed, event)
          [] event.event_type = "session_end" ->
                [timed EXCEPT !.end_time = Some(now)]
          [] OTHER ->
                process_generic_activity(timed, event)

\* What process_event does to current_session before it saves: the tool
\* counts and the duration of every event, then the branch of its event_type.
Accumulate(session, event, now) ==
    LET counted == IF IsSome(event.tool_calls)
                   THEN [session EXCEPT
                           !.tool_usage = CountToolCalls(@, Unwrap(event.tool_calls))]
                   ELSE session
        timed == IF IsSome(event.duration_ms)
                 THEN [counted EXCEPT !.total_duration_ms = @ + Unwrap(event.duration_ms)]
                 ELSE counted
    IN  CASE event.event_type \in PromptEventTypes ->
                infer_objectives_and_accomplishments(timed, event)
          [] event.event_type \in ToolEventTypes ->
                process_tool_activity(timed, event)
          [] event.event_type = "error" ->
                process_error(timed, event)
          [] event.event_type = "session_end" ->
                [timed EXCEPT !.end_time = Some(now)]
          [] OTHER ->
                process_generic_activity(timed, event)

\* Whether process_event panics on the event: the byte slice of the
\* description, reached when the event's prompt yields an accomplishment.
EventPanics(event) ==
    /\ event.event_type \in PromptEventTypes
    /\ IsSome(event.user_prompt)
    /\ IF Unwrap(event.user_prompt) \in KnownPrompts
       THEN Classified[Unwrap(event.user_prompt)].panics
       ELSE DescriptionPanics(Unwrap(event.user_prompt))

(***************************************************************************)
(* The store diary.db. A table is the sequence of its rows in insertion    *)
(* order; a row's id (INTEGER PRIMARY KEY AUTOINCREMENT) is its index, no  *)
(* row ever being deleted. NULL is None.                                   *)
(*                                                                         *)
(* Every statement runs on a connection of its own and commits by itself,  *)
(* so a save that fails keeps what its earlier statements wrote. A run of  *)
(* statements is threaded through an execution state                       *)
(*   [db, n, q, failed]                                                    *)
(* where n counts the statements whose error `?` propagates, q counts the  *)
(* EXISTS queries (whose error unwrap_or(false) turns into "no such row"), *)
(* and failed says that a statement has failed and the call has returned.  *)
(* A fault [stmt, query] names the statement and the query that fail (0:   *)
(* none). A failure of Connection::open is the failure of the statement    *)
(* that follows it: nothing is written and the error propagates.           *)
(***************************************************************************)
\* The schema of init_database: no table declares a UNIQUE constraint.
EmptyDb ==
    [sessions |-> <<>>,
     accomplishments |-> <<>>,
     accomplishment_files |-> <<>>,
     objectives |-> <<>>,
     issues |-> <<>>,
     tool_usage |-> <<>>,
     files_modified |-> <<>>]

\* The store before any invocation has created it: no file, no table.
NoStore == [table \in {} |-> <<>>]

\* init_database: CREATE TABLE IF NOT EXISTS for every table.
init_database(store) == IF store = NoStore THEN EmptyDb ELSE store

\* The column sets init_database declares unique for tool_usage besides the
\* generated id: none.
ToolUsageUniqueKeys == {}

NoFault == [stmt |-> 0, query |-> 0]

Begin(db) == [db |-> db, n |-> 0, q |-> 0, failed |-> FALSE]

\* One statement: it fails if it is the fault's, else the store becomes newdb.
Execute(st, fault, newdb) ==
    IF st.failed THEN st
    ELSE IF st.n + 1 = fault.stmt THEN [st EXCEPT !.n = @ + 1, !.failed = TRUE]
    ELSE [st EXCEPT !.n = @ + 1, !.db = newdb]

\* INSERT INTO table ...
Insert(db, table, row) == [db EXCEPT ![table] = Append(@, row)]

\* INSERT OR REPLACE INTO table ...: the rows that agree with the new row on
\* all columns of one of the table's unique keys are deleted first.
InsertOrReplace(db, table, row, unique_keys) ==
    LET Conflicts(old) == \E key \in unique_keys : \A col \in key : old[col] = row[col]
    IN  [db EXCEPT ![table] = Append(SelectSeq(@, LAMBDA old : ~Conflicts(old)), row)]

\* An existence check that looks at the rows of every session.
AccomplishmentExistsInAnySession(db, session_id, description) ==
    \E i \in DOMAIN db.accomplishments :
        db.accomplishments[i].description = description

\* SELECT EXISTS(SELECT 1 FROM accomplishments WHERE session_id = ? AND
\* description = ?)
AccomplishmentExists(db, session_id, description) ==
    \E i \in DOMAIN db.accomplishments :
        /\ db.accomplishments[i].session_id = session_id
        /\ db.accomplishments[i].description = description

\* SELECT EXISTS(SELECT 1 FROM objectives WHERE session_id = ? AND objective = ?)
ObjectiveExists(db, session_id, objective) ==
    \E i \in DOMAIN db.objectives :
        /\ db.objectives[i].session_id = session_id
        /\ db.objectives[i].objective = objective

\* The answer the caller sees to an EXISTS query: false when the query fails.
QueryResult(st, fault, found) == IF st.q + 1 = fault.query THEN FALSE ELSE found

\* A get_or_create_session that inserts a sessions row at every call.
CreateSessionEveryTime(current_session_id, session, test_mode, st, fault) ==
    LET row == [start_time |-> session.start_time,
                end_time |-> None,
                total_duration_ms |-> 0]
        after == Execute(st, fault, Insert(st.db, "sessions", row))
    IN  [st |-> after,
         current_session_id |->
             IF after.failed THEN current_session_id ELSE Some(Len(after.db.sessions))]

\* get_or_create_session: [st, current_session_id] after the call. The id
\* stays None when the INSERT fails.
get_or_create_session(current_session_id, session, test_mode, st, fault) ==
    IF IsSome(current_session_id)
    THEN [st |-> st, current_session_id |-> current_session_id]
    ELSE IF test_mode
    THEN [st |-> st, current_session_id |-> Some(1)]
    ELSE LET row == [start_time |-> session.start_time,
                     end_time |-> None,
                     total_duration_ms |-> 0]
             after == Execute(st, fault, Insert(st.db, "sessions", row))
         IN  [st |-> after,
              current_session_id |->
                  IF after.failed THEN None ELSE Some(Len(after.db.sessions))]

RECURSIVE InsertAccomplishmentFiles(_, _, _, _)
InsertAccomplishmentFiles(st, fault, acc_id, files) ==
    IF files = <<>> THEN st
    ELSE InsertAccomplishmentFiles(
             Execute(st, fault,
                     Insert(st.db, "accomplishment_files",
                            [accomplishment_id |-> acc_id, file_path |-> Head(files)])),
             fault, acc_id, Tail(files))

\* INSERT INTO accomplishments ... RETURNING id, then the rows of its files.
InsertAccomplishment(st, fault, session_id, accomplishment) ==
    LET row == [session_id |-> session_id,
                category |-> accomplishment.category,
                description |-> accomplishment.description,
                duration_ms |-> accomplishment.duration_ms]
        after == Execute(st, fault, Insert(st.db, "accomplishments", row))
    IN  InsertAccomplishmentFiles(after, fault, Len(after.db.accomplishments),
                                  accomplishment.files_affected)

\* An incremental save that inserts every accomplishment without looking.
AccomplishmentIsNewUnchecked(st, fault, session_id, accomplishment) == TRUE

\* The incremental save's check before an accomplishment is inserted.
AccomplishmentIsNew(st, fault, session_id, accomplishment) ==
    ~QueryResult(st, fault,
                 AccomplishmentExists(st.db, session_id, accomplishment.description))

\* The incremental save's check before an objective is inserted.
ObjectiveIsNew(st, fault, session_id, objective) ==
    ~QueryResult(st, fault, ObjectiveExists(st.db, session_id, objective))

RECURSIVE SaveNewAccomplishments(_, _, _, _)
SaveNewAccomplishments(st, fault, session_id, accomplishments) ==
    IF accomplishments = <<>> \/ st.failed THEN st
    ELSE LET asked == [st EXCEPT !.q = @ + 1]
         IN  SaveNewAccomplishments(
                 IF AccomplishmentIsNew(st, fault, session_id, Head(accomplishments))
                 THEN InsertAccomplishment(asked, fault, session_id, Head(accomplishments))
                 ELSE asked,
                 fault, session_id, Tail(accomplishments))

RECURSIVE SaveNewObjectives(_, _, _, _)
SaveNewObjectives(st, fault, session_id, objectives) ==
    IF objectives = <<>> \/ st.failed THEN st
    ELSE LET asked == [st EXCEPT !.q = @ + 1]
             row == [session_id |-> session_id, objective |-> Head(objectives)]
         IN  SaveNewObjectives(
                 IF ObjectiveIsNew(st, fault, session_id, Head(objectives))
                 THEN Execute(asked, fault, Insert(asked.db, "objectives", row))
                 ELSE asked,
                 fault, session_id, Tail(objectives))

\* The tool_usage loop of save_current_data; order is the order in which the
\* HashMap yields its keys.
RECURSIVE UpsertToolUsage(_, _, _, _, _)
UpsertToolUsage(st, fault, session_id, tool_usage, order) ==
    IF order = <<>> THEN st
    ELSE LET row == [session_id |-> session_id,
                     tool_name |-> Head(order),
                     usage_count |-> tool_usage[Head(order)]]
         IN  UpsertToolUsage(
                 Execute(st, fault,
                         InsertOrReplace(st.db, "tool_usage", row, ToolUsageUniqueKeys)),
                 fault, session_id, tool_usage, Tail(order))

\* An incremental save whose UPDATE of the duration changes no row.
UpdateDurationSkipped(db, session_id, total_duration_ms) == db

\* UPDATE sessions SET total_duration_ms = ? WHERE id = ?
UpdateDuration(db, session_id, total_duration_ms) ==
    [db EXCEPT !.sessions =
        [i \in DOMAIN @ |->
            IF i = session_id THEN [@[i] EXCEPT !.total_duration_ms = total_duration_ms]
            ELSE @[i]]]

\* save_current_data: [st, current_session_id] after the call; the call
\* returned Ok iff st.failed is false.
save_current_data(current_session_id, session, test_mode, db, fault, order) ==
    IF test_mode THEN [st |-> Begin(db), current_session_id |-> current_session_id]
    ELSE LET got == get_or_create_session(current_session_id, session, test_mode,
                                          Begin(db), fault)
         IN  IF got.st.failed THEN got
             ELSE LET session_id == Unwrap(got.current_session_id)
                      updated == Execute(got.st, fault,
                                         UpdateDuration(got.st.db, session_id,
                                                        session.total_duration_ms))
                      accs == SaveNewAccomplishments(updated, fault, session_id,
                                                     session.accomplishments)
                      objs == SaveNewObjectives(accs, fault, session_id,
                                                session.objectives)
                      tools == UpsertToolUsage(objs, fault, session_id,
                                               session.tool_usage, order)
                  IN  [st |-> tools, current_session_id |-> got.current_session_id]

\* A finalization that inserts only the accomplishments that have no row yet.
InsertAccomplishmentsIfNew(st, fault, session_id, accomplishments) ==
    SaveNewAccomplishments(st, fault, session_id, accomplishments)

RECURSIVE InsertAccomplishments(_, _, _, _)
InsertAccomplishments(st, fault, session_id, accomplishments) ==
    IF accomplishments = <<>> \/ st.failed THEN st
    ELSE InsertAccomplishments(
             InsertAccomplishment(st, fault, session_id, Head(accomplishments)),
             fault, session_id, Tail(accomplishments))

\* INSERT INTO table (session_id, column) VALUES (?, ?) for every value.
RECURSIVE InsertEach(_, _, _, _, _, _)
InsertEach(st, fault, session_id, table, column, values) ==
    IF values = <<>> THEN st
    ELSE InsertEach(
             Execute(st, fault,
                     Insert(st.db, table,
                            [c \in {"session_id", column} |->
                                IF c = column THEN Head(values) ELSE session_id])),
             fault, session_id, table, column, Tail(values))

\* The tool_usage loop of save_session_to_db: a plain INSERT per key.
RECURSIVE InsertToolUsage(_, _, _, _, _)
InsertToolUsage(st, fault, session_id, tool_usage, order) ==
    IF order = <<>> THEN st
    ELSE InsertToolUsage(
             Execute(st, fault,
                     Insert(st.db, "tool_usage",
                            [session_id |-> session_id,
                             tool_name |-> Head(order),
                             usage_count |-> tool_usage[Head(order)]])),
             fault, session_id, tool_usage, Tail(order))

\* UPDATE sessions SET end_time = ?, total_duration_ms = ? WHERE id = ?
UpdateEnd(db, session_id, end_time, total_duration_ms) ==
    [db EXCEPT !.sessions =
        [i \in DOMAIN @ |->
            IF i = session_id
            THEN [@[i] EXCEPT !.end_time = end_time,
                              !.total_duration_ms = total_duration_ms]
            ELSE @[i]]]

\* save_session_to_db: [st, current_session_id] after the call. In test mode
\* the report is printed and nothing is written.
save_session_to_db(current_session_id, session, test_mode, db, fault, order) ==
    IF test_mode THEN [st |-> Begin(db), current_session_id |-> current_session_id]
    ELSE LET got == get_or_create_session(current_session_id, session, test_mode,
                                          Begin(db), fault)
         IN  IF got.st.failed THEN got
             ELSE LET session_id == Unwrap(got.current_session_id)
                      updated == Execute(got.st, fault,
                                         UpdateEnd(got.st.db, session_id,
                                                   session.end_time,
                                                   session.total_duration_ms))
                      accs == InsertAccomplishments(updated, fault, session_id,
                                                    session.accomplishments)
                      objs == InsertEach(accs, fault, session_id, "objectives",
                                         "objective", session.objectives)
                      issues == InsertEach(objs, fault, session_id, "issues",
                                           "issue", session.issues)
                      tools == InsertToolUsage(issues, fault, session_id,
                                               session.tool_usage, order)
                      files == InsertEach(tools, fault, session_id, "files_modified",
                                          "file_path",
                                          SortDedup(Range(session.files_modified)))
                  IN  [st |-> files, current_session_id |-> got.current_session_id]

(***************************************************************************)
(* The report. A text is the sequence of its lines; the emoji of a title is *)
(* written as its name between colons.                                     *)
(***************************************************************************)
RECURSIVE Flatten(_)
Flatten(seqs) == IF seqs = <<>> THEN <<>> ELSE Head(seqs) \o Flatten(Tail(seqs))

\* parts.join(sep)
RECURSIVE Join(_, _)
Join(parts, sep) ==
    IF parts = <<>> THEN ""
    ELSE IF Len(parts) = 1 THEN parts[1]
    ELSE parts[1] \o sep \o Join(Tail(parts), sep)

\* The duration summary: whole minutes, or the marker of less than one.
duration_display(total_duration_ms) ==
    IF total_duration_ms \div 60000 > 0
    THEN "~" \o ToString(total_duration_ms \div 60000) \o " minutes"
    ELSE "< 1 minute"

duration_str(duration_ms) ==
    IF IsSome(duration_ms) THEN " _(" \o ToString(Unwrap(duration_ms)) \o "ms)_" ELSE ""

\* The categories of the accomplishments: the keys of the HashMap categories.
Categories(accomplishments) ==
    {accomplishments[i].category : i \in DOMAIN accomplishments}

\* The orders in which the HashMap categories may yield its keys.
CategoryOrders(accomplishments) ==
    {o \in [1..Cardinality(Categories(accomplishments)) -> Categories(accomplishments)] :
        Range(o) = Categories(accomplishments)}

AccomplishmentLines(acc) ==
    << "- **" \o acc.description \o "**" \o duration_str(acc.duration_ms) >>
    \o (IF acc.files_affected # <<>>
        THEN << "  - Files: " \o Join(acc.files_affected, ", ") >>
        ELSE <<>>)

CategoryLines(accomplishments, category) ==
    LET own == SelectSeq(accomplishments, LAMBDA acc : acc.category = category)
    IN  << "#### **" \o category \o "**" >>
        \o Flatten([i \in DOMAIN own |-> AccomplishmentLines(own[i])])
        \o << "" >>

\* A section of the report: nothing when it has no items.
Section(title, items) ==
    IF items = <<>> THEN <<>>
    ELSE << title >> \o [i \in DOMAIN items |-> "- " \o items[i]] \o << "" >>

\* generate_diary_content: the lines of the report of the session, the
\* HashMaps yielding their keys in category_order and tool_order.
generate_diary_content(session, category_order, tool_order) ==
    << "",
       "### :check: **Accomplishments** _(" \o duration_display(session.total_duration_ms) \o ")*",
       "" >>
    \o Flatten([i \in DOMAIN category_order |->
                  CategoryLines(session.accomplishments, category_order[i])])
    \o Section("### :target: **Session Objectives**", session.objectives)
    \o Section("### :warning: **Issues Encountered**", session.issues)
    \o Section("### :tools: **Tools Used**",
               [i \in DOMAIN tool_order |->
                   tool_order[i] \o ": " \o ToString(session.tool_usage[tool_order[i]])
                       \o " times"])
    \o Section("### :folder: **Files Modified**", SortDedup(Range(session.files_modified)))
    \o << "---" >>

\* Local::now().format("%Y-%m-%d"): the day of the clock reading.
FormatDate(now) == "day " \o ToString(now)

\* What save_session_to_db prints in test mode: the header and the report.
DiaryEntry(session, now, category_order, tool_order) ==
    << "=== DIARY ENTRY FOR " \o FormatDate(now) \o " ===" >>
    \o generate_diary_content(session, category_order, tool_order)
    \o << "" >>

(***************************************************************************)
(* Retrieval (show_recent_entries). A time is stored as its RFC 3339 text  *)
(* and ordered as text; the model keeps the time itself, and the header of *)
(* a session formats it.                                                   *)
(***************************************************************************)
\* ORDER BY start_time DESC: the orders of the session ids the query may
\* give, sessions of the same start in any order.
SessionOrders(sessions) ==
    {o \in [1..Len(sessions) -> DOMAIN sessions] :
        /\ Range(o) = DOMAIN sessions
        /\ \A i, j \in DOMAIN o :
              i < j => sessions[o[i]].start_time >= sessions[o[j]].start_time}

\* WHERE session_id = ?1 ORDER BY id
RowsOf(table, session_id) == SelectSeq(table, LAMBDA row : row.session_id = session_id)

\* A category order of the HashMap categories for each of the sessions.
SessionCategoryOrders(db, ids) ==
    {f \in [ids -> UNION {CategoryOrders(RowsOf(db.accomplishments, id)) : id \in ids}] :
        \A id \in ids : f[id] \in CategoryOrders(RowsOf(db.accomplishments, id))}

FormatTime(start_time) == "time " \o ToString(start_time)

SessionHeader(row) ==
    << "", "## Session " \o FormatTime(row.start_time) \o " - "
             \o duration_display(row.total_duration_ms) >>

ShownCategory(rows, category) ==
    LET own == SelectSeq(rows, LAMBDA row : row.category = category)
    IN  << "", "#### **" \o category \o "**" >>
        \o [i \in DOMAIN own |->
               "- **" \o own[i].description \o "**" \o duration_str(own[i].duration_ms)]

ShownAccomplishments(rows, category_order) ==
    IF rows = <<>> THEN <<>>
    ELSE << "", "### :check: **Accomplishments**" >>
         \o Flatten([i \in DOMAIN category_order |->
                        ShownCategory(rows, category_order[i])])

ShownObjectives(rows) ==
    (IF rows = <<>> THEN <<>>
     ELSE << "", "### :target: **Session Objectives**" >>
          \o [i \in DOMAIN rows |-> "- " \o rows[i].objective])
    \o << "", "---" >>

\* The queries show_recent_entries runs for n sessions: the sessions, then the
\* accomplishments and the objectives of each.
ShowQueries(n) == 1 + 2 * n

\* show_recent_entries: the lines printed and whether it returned an error.
\* The sessions come in session_order, the categories of session id in
\* category_orders[id]; query fail_at fails (0: none), and what is printed
\* before it stays printed.
show_recent_entries(db, test_mode, limit, session_order, category_orders, fail_at) ==
    IF test_mode
    THEN [out |-> << "Recent entries not available in test mode" >>, failed |-> FALSE]
    ELSE LET shown == SubSeq(session_order, 1,
                             IF limit < Len(session_order) THEN limit
                             ELSE Len(session_order))
             Header(k) == IF k <= Len(shown) THEN SessionHeader(db.sessions[shown[k]])
                          ELSE <<>>
             AfterQuery(n) ==
                 IF n = 1 THEN << "", "=== RECENT DIARY ENTRIES ===" >> \o Header(1)
                 ELSE IF n % 2 = 0
                 THEN ShownAccomplishments(RowsOf(db.accomplishments, shown[n \div 2]),
                                           category_orders[shown[n \div 2]])
                 ELSE ShownObjectives(RowsOf(db.objectives, shown[n \div 2]))
                      \o Header(n \div 2 + 1)
             answered == IF fail_at = 0 THEN ShowQueries(Len(shown)) ELSE fail_at - 1
         IN  [out |-> Flatten([n \in 1..answered |-> AfterQuery(n)]),
              failed |-> fail_at # 0]

(***************************************************************************)
(* The hook invocations: main reading its input.                           *)
(***************************************************************************)
\* The longest input, in lines.
MaxLines == 2

\* The most errors of the environment (a failing statement or query of the
\* store, a failing read of the input) in one run.
MaxFaults == 1

Inputs == UNION {[1..k -> Lines] : k \in 0..MaxLines}

\* The hook invocations; Init says which of them run.
Procs == {"p1", "p2"}

\* A fallback event of a type that process_event treats as generic activity.
SimpleEventAsNote(line) == ClaudeEvent("note", Some(line), None, None, None, None)

\* The event main builds from a line that does not parse.
simple_event(line) == ClaudeEvent("message", Some(line), None, None, None, None)

\* The orders in which a HashMap may yield the keys of map.
Orders(map) ==
    {o \in [1..Cardinality(DOMAIN map) -> DOMAIN map] : Range(o) = DOMAIN map}

\* The faults a call may meet that runs n statements and q queries unharmed.
FaultsFor(n, q) ==
    {NoFault} \cup {[stmt |-> k, query |-> 0] : k \in 1..n}
              \cup {[stmt |-> 0, query |-> j] : j \in 1..q}

\* Whether the store holds, for the session, a row for every objective and
\* for the description of every accomplishment of the accumulator.
AllPersisted(current_session_id, session, db) ==
    \/ session.objectives = <<>> /\ session.accomplishments = <<>>
    \/ /\ IsSome(current_session_id)
       /\ \A i \in DOMAIN session.accomplishments :
            AccomplishmentExists(db, Unwrap(current_session_id),
                                 session.accomplishments[i].description)
       /\ \A i \in DOMAIN session.objectives :
            ObjectiveExists(db, Unwrap(current_session_id), session.objectives[i])

VARIABLES
    input,               \* the lines of standard input, the same for every invocation
    active,              \* the invocations that run
    pos,                 \* per invocation: the index of the next line to read
    pc,                  \* per invocation: "reading", "done" (exit 0), "failed" (exit # 0)
    test_mode,           \* per invocation: DiaryManager.test_mode
    current_session_id,  \* per invocation: DiaryManager.current_session_id
    current_session,     \* per invocation: DiaryManager.current_session
    db,                  \* the store diary.db
    clock,               \* the wall clock Local::now() reads
    faults,              \* the errors the environment has caused so far
    fault_limit,         \* the most errors the environment causes in the run
    stdout,              \* per invocation: the lines printed to standard output
    history              \* per invocation: what has been observed of the run

vars == <<input, active, pos, pc, test_mode, current_session_id, current_session,
          db, clock, faults, fault_limit, stdout, history>>

\* history[p]:
\*   events_processed  the calls of process_event
\*   finalizations     the calls of save_session_to_db
\*   finalize_errors   those of them that returned an error
\*   save_errors       the calls of save_current_data that returned an error
\*   alloc_errors      the calls of get_or_create_session that returned an error
\*   last_save         "ok" / "err": how the latest call of save_current_data
\*                     ended, if the invocation has done nothing else since
\*                     but skip blank lines; else "none"
\*   last_final        "ok" / "err": how the latest call of save_session_to_db
\*                     ended, if the invocation has done nothing else since
\*                     but skip blank lines; else "none"
\*   was_behind        a failed save_current_data has left an objective or an
\*                     accomplishment of the accumulator without a row
\*   stopped_by        what ended main: "end" (the end of input, exit 0),
\*                     "finalize" (an error of that finalization), "read" (an
\*                     error of the reader), "panic", "show" (an error of the
\*                     retrieval); "none" while it runs
\*   shown             the store and the limit of the retrieval, once made
NoHistory ==
    [events_processed |-> 0,
     finalizations |-> 0,
     finalize_errors |-> 0,
     save_errors |-> 0,
     alloc_errors |-> 0,
     last_save |-> "none",
     last_final |-> "none",
     was_behind |-> FALSE,
     stopped_by |-> "none",
     shown |-> None]

\* The invocations start one after the other.
StartTime == [p \in Procs |-> IF p = "p1" THEN 1 ELSE 2]

\* The state after DiaryManager::new of every invocation: with --test (test)
\* the store is left as it was, else init_database has created its tables.
InitAt(running, lines, limit, test, store, at) ==
    /\ input = lines
    /\ active = running
    /\ pos = [p \in Procs |-> 1]
    /\ pc = at
    /\ test_mode = [p \in Procs |-> test]
    /\ current_session_id = [p \in Procs |-> None]
    /\ current_session = [p \in Procs |-> NewSession(StartTime[p])]
    /\ db = IF test THEN store ELSE init_database(store)
    /\ clock = 3
    /\ faults = 0
    /\ fault_limit = limit
    /\ stdout = [p \in Procs |-> <<>>]
    /\ history = [p \in Procs |-> NoHistory]

\* Invocations without --show-recent: all are about to read their input.
InitOf(running, lines, limit, test, store) ==
    InitAt(running, lines, limit, test, store, [p \in Procs |-> "reading"])

\* Invocations in normal mode on a store that did not exist.
InitWith(running, lines, limit) == InitOf(running, lines, limit, FALSE, NoStore)

\* One invocation, any input.
Init == \E lines \in Inputs : InitWith({"p1"}, lines, MaxFaults)

\* The faults a call may meet whose unharmed run ends in execution state
\* clean: none once the environment has caused all its errors.
PossibleFaults(clean) ==
    IF faults < fault_limit THEN FaultsFor(clean.n, clean.q) ELSE {NoFault}

\* A process_event that would undo the event when its save fails.
SessionRolledBack(before, folded, save_failed) ==
    IF save_failed THEN before ELSE folded

\* What process_event leaves in current_session: the event is folded in
\* before the save runs, so an error of the save finds it folded in.
SessionAfterEvent(before, folded, save_failed) == folded

\* The save process_event ends with, or main after the loop: the finalization
\* for a session_end event and at the end of input, else the incremental save.
RunSave(final, id, session, test, store, fault, order) ==
    IF final THEN save_session_to_db(id, session, test, store, fault, order)
    ELSE save_current_data(id, session, test, store, fault, order)

\* A finalization that prints nothing in test mode.
PrintsNothing(final, test, session, now) == {<<>>}

\* What a save prints: in test mode the finalization prints the diary entry,
\* with the HashMaps in any order; every other save prints nothing.
Printed(final, test, session, now) ==
    IF final /\ test
    THEN {DiaryEntry(session, now, category_order, tool_order) :
             category_order \in CategoryOrders(session.accomplishments),
             tool_order \in Orders(session.tool_usage)}
    ELSE {<<>>}

\* history[p] after a call of process_event that ended with the save result r.
Observed(h, final, r, session) ==
    [events_processed |-> h.events_processed + 1,
     finalizations |-> h.finalizations + (IF final THEN 1 ELSE 0),
     finalize_errors |-> h.finalize_errors + (IF final /\ r.st.failed THEN 1 ELSE 0),
     save_errors |-> h.save_errors + (IF ~final /\ r.st.failed THEN 1 ELSE 0),
     alloc_errors |-> h.alloc_errors +
         (IF r.st.failed /\ ~IsSome(r.current_session_id) THEN 1 ELSE 0),
     last_save |-> IF final THEN "none" ELSE IF r.st.failed THEN "err" ELSE "ok",
     last_final |-> IF ~final THEN "none" ELSE IF r.st.failed THEN "err" ELSE "ok",
     was_behind |->
         \/ h.was_behind
         \/ /\ ~final
            /\ r.st.failed
            /\ ~AllPersisted(r.current_session_id, session, r.st.db),
     stopped_by |-> h.stopped_by,
     shown |-> h.shown]

\* process_event(event) by invocation p, and main's handling of its result:
\* an error is reported and the loop goes on. (A value is bound by \E over a
\* singleton set where it is used more than once.)
HandleEvent(p, event) ==
    IF EventPanics(event)
    THEN /\ pc' = [pc EXCEPT ![p] = "failed"]
         /\ clock' = clock + 1
         /\ history' = [history EXCEPT ![p] =
               [@ EXCEPT !.last_save = "none", !.last_final = "none",
                          !.stopped_by = "panic"]]
         /\ UNCHANGED <<input, active, pos, test_mode, current_session_id,
                        current_session, db, faults, fault_limit, stdout>>
    ELSE \E final \in {event.event_type = "session_end"} :
         \E folded \in {Accumulate(current_session[p], event, clock)} :
         \E order \in Orders(folded.tool_usage) :
         \E clean \in {RunSave(final, current_session_id[p], folded, test_mode[p],
                               db, NoFault, order)} :
         \E fault \in PossibleFaults(clean.st) :
         \E r \in {RunSave(final, current_session_id[p], folded, test_mode[p],
                           db, fault, order)} :
         \E session \in {SessionAfterEvent(current_session[p], folded, r.st.failed)} :
         \E printed \in Printed(final, test_mode[p], folded, clock) :
            /\ stdout' = [stdout EXCEPT ![p] = @ \o printed]
            /\ faults' = IF fault = NoFault THEN faults ELSE faults + 1
            /\ db' = r.st.db
            /\ current_session_id' =
                  [current_session_id EXCEPT ![p] = r.current_session_id]
            /\ current_session' = [current_session EXCEPT ![p] = session]
            /\ pos' = [pos EXCEPT ![p] = @ + 1]
            /\ clock' = clock + 1
            /\ history' = [history EXCEPT ![p] = Observed(@, final, r, session)]
            /\ UNCHANGED <<input, active, pc, test_mode, fault_limit>>

Reading(p) == p \in active /\ pc[p] = "reading"

\* main's loop, a line that is empty once trimmed: continue.
SkipBlankLine(p) ==
    /\ Reading(p)
    /\ pos[p] <= Len(input)
    /\ IsBlank(input[pos[p]])
    /\ pos' = [pos EXCEPT ![p] = @ + 1]
    /\ clock' = clock + 1
    /\ UNCHANGED <<input, active, pc, test_mode, current_session_id,
                   current_session, db, faults, fault_limit, stdout, history>>

\* main's loop, a line that parses: process_event(event).
ProcessParsedLine(p) ==
    /\ Reading(p)
    /\ pos[p] <= Len(input)
    /\ ~IsBlank(input[pos[p]])
    /\ IsSome(input[pos[p]].event)
    /\ HandleEvent(p, Unwrap(input[pos[p]].event))

\* main's loop, a line that does not parse: process_event(simple_event).
ProcessRawLine(p) ==
    /\ Reading(p)
    /\ pos[p] <= Len(input)
    /\ ~IsBlank(input[pos[p]])
    /\ ~IsSome(input[pos[p]].event)
    /\ HandleEvent(p, simple_event(input[pos[p]].text))

\* main's loop, reader.lines() yields an error: main returns it.
ReadLineFails(p) ==
    /\ Reading(p)
    /\ faults < fault_limit
    /\ faults' = faults + 1
    /\ pc' = [pc EXCEPT ![p] = "failed"]
    /\ clock' = clock + 1
    /\ history' = [history EXCEPT ![p] =
          [@ EXCEPT !.last_save = "none", !.last_final = "none",
                    !.stopped_by = "read"]]
    /\ UNCHANGED <<input, active, pos, test_mode, current_session_id,
                   current_session, db, fault_limit, stdout>>

\* main after the loop: the end time is stamped and the session finalized;
\* an error of the finalization is main's result.
EndOfInput(p) ==
    /\ Reading(p)
    /\ pos[p] > Len(input)
    /\ \E session \in {[current_session[p] EXCEPT !.end_time = Some(clock)]} :
       \E order \in Orders(session.tool_usage) :
       \E clean \in {RunSave(TRUE, current_session_id[p], session, test_mode[p],
                             db, NoFault, order)} :
       \E fault \in PossibleFaults(clean.st) :
       \E r \in {RunSave(TRUE, current_session_id[p], session, test_mode[p],
                         db, fault, order)} :
       \E printed \in Printed(TRUE, test_mode[p], session, clock) :
          /\ stdout' = [stdout EXCEPT ![p] = @ \o printed]
          /\ faults' = IF fault = NoFault THEN faults ELSE faults + 1
          /\ db' = r.st.db
          /\ current_session_id' =
                [current_session_id EXCEPT ![p] = r.current_session_id]
          /\ current_session' = [current_session EXCEPT ![p] = session]
          /\ pc' = [pc EXCEPT ![p] = IF r.st.failed THEN "failed" ELSE "done"]
          /\ clock' = clock + 1
          /\ history' = [history EXCEPT ![p] =
                [@ EXCEPT !.finalizations = @ + 1,
                          !.finalize_errors = @ + (IF r.st.failed THEN 1 ELSE 0),
                          !.alloc_errors = @ +
                              (IF r.st.failed /\ ~IsSome(r.current_session_id)
                               THEN 1 ELSE 0),
                          !.last_save = "none",
                          !.last_final = IF r.st.failed THEN "err" ELSE "ok",
                          !.stopped_by = IF r.st.failed THEN "finalize" ELSE "end"]]
          /\ UNCHANGED <<input, active, pos, test_mode, fault_limit>>

Next ==
    \E p \in Procs :
        \/ SkipBlankLine(p)
        \/ ProcessParsedLine(p)
        \/ ProcessRawLine(p)
        \/ ReadLineFails(p)
        \/ EndOfInput(p)

Spec == Init /\ [][Next]_vars

\* The inputs of the runs of two invocations.
ConcInputs ==
    { <<PromptLine, ToolLine>>, <<ToolLine, EndLine>>, <<RawLine, BlankLine>>,
      <<ErrorLine>>, <<PromptLine>> }

\* Two invocations that read the same input against the same store.
InitConc == \E lines \in ConcInputs : InitWith(Procs, lines, 1)

SpecConc == InitConc /\ [][Next]_vars

\* One invocation with --test, any input, on a store that does not exist.
InitDryRun == \E lines \in Inputs : InitOf({"p1"}, lines, MaxFaults, TRUE, NoStore)

SpecDryRun == InitDryRun /\ [][Next]_vars

\* One invocation whose input is one line: a prompt text as it stands or as the
\* user_prompt of an event, or a blank line.
InitPrompts == \E line \in PromptLines : InitWith({"p1"}, <<line>>, MaxFaults)

SpecPrompts == InitPrompts /\ [][Next]_vars

\* One invocation whose input is made of events with tool-call records and
\* durations, blank lines and lines that are no ClaudeEvent.
ToolInputs == UNION {[1..k -> ToolLines] : k \in 0..MaxLines}

InitTools == \E lines \in ToolInputs : InitWith({"p1"}, lines, MaxFaults)

SpecTools == InitTools /\ [][Next]_vars

\* One invocation whose input is made of error events, blank lines and lines
\* that are no ClaudeEvent.
ErrorInputs == UNION {[1..k -> ErrorLines] : k \in 0..MaxLines}

InitErrors == \E lines \in ErrorInputs : InitWith({"p1"}, lines, MaxFaults)

SpecErrors == InitErrors /\ [][Next]_vars

\* The inputs of the runs over tool-call records: records with and without a
\* file_path, of listed and unlisted tools, with descriptions that repeat.
RecordInputs ==
    { <<OddToolLine>>, <<ToolLine, OddToolLine>>, <<OddToolLine, ToolLine>>,
      <<ToolLine, ResultLine>>, <<ResultLine, ErrorLine>>, <<BlankLine, RawLine>> }

InitRecords == \E lines \in RecordInputs : InitWith({"p1"}, lines, 1)

SpecRecords == InitRecords /\ [][Next]_vars

\* The most sessions a retrieval is asked for (--limit).
MaxShown == 2

\* The orders a retrieval may meet: of the sessions, and of the categories of
\* each session.
ShowOrders(store) ==
    {[sessions |-> o, categories |-> c] :
        o \in SessionOrders(store.sessions),
        c \in UNION {SessionCategoryOrders(store, Range(x)) :
                       x \in SessionOrders(store.sessions)}}

\* main with --show-recent: show_recent_entries(limit), then exit.
ShowRecentEntries(p) ==
    /\ p \in active
    /\ pc[p] = "show"
    /\ \E limit \in 0..MaxShown :
       \E order \in ShowOrders(db) :
       \E fail_at \in (IF faults < fault_limit /\ ~test_mode[p]
                        THEN 0..ShowQueries(IF limit < Len(db.sessions) THEN limit
                                            ELSE Len(db.sessions))
                        ELSE {0}) :
       \E r \in {show_recent_entries(db, test_mode[p], limit, order.sessions,
                                      order.categories, fail_at)} :
          /\ stdout' = [stdout EXCEPT ![p] = @ \o r.out]
          /\ faults' = IF r.failed THEN faults + 1 ELSE faults
          /\ pc' = [pc EXCEPT ![p] = IF r.failed THEN "failed" ELSE "done"]
          /\ clock' = clock + 1
          /\ history' = [history EXCEPT ![p] =
                [@ EXCEPT !.shown = Some([db |-> db, limit |-> limit]),
                          !.stopped_by = IF r.failed THEN "show" ELSE "end"]]
          /\ UNCHANGED <<input, active, pos, test_mode, current_session_id,
                         current_session, db, fault_limit>>

NextShow == Next \/ \E p \in Procs : ShowRecentEntries(p)

\* The store an earlier invocation has left: one session that started at
\* time 0, with accomplishments of two categories and two objectives.
PriorStore ==
    [EmptyDb EXCEPT
        !.sessions = << [start_time |-> 0, end_time |-> Some(0),
                         total_duration_ms |-> 61000] >>,
        !.accomplishments =
            << [session_id |-> 1, category |-> "Code Development",
                description |-> "Fixed code issues", duration_ms |-> None],
               [session_id |-> 1, category |-> "Documentation",
                description |-> "Created documentation", duration_ms |-> Some(5)],
               [session_id |-> 1, category |-> "Code Development",
                description |-> "Added tests", duration_ms |-> None] >>,
        !.objectives =
            << [session_id |-> 1, objective |-> "fix it"],
               [session_id |-> 1, objective |-> "document it"] >>]

ShowInputs == { <<>>, <<ToolLine>>, <<PromptLine>>, <<BlankLine, RawLine>> }

\* Two invocations on the store of an earlier one: the second is a retrieval,
\* the first a retrieval or a run over an input.
InitShow ==
    \E lines \in ShowInputs : \E first \in {"reading", "show"} :
        InitAt(Procs, lines, 1, FALSE, PriorStore,
               [p \in Procs |-> IF p = "p1" THEN first ELSE "show"])

SpecShow == InitShow /\ [][NextShow]_vars

(***************************************************************************)
(* Properties.                                                             *)
(***************************************************************************)
\* The rows of a table that belong to a session.
SessionRows(table, session_id) ==
    {i \in DOMAIN table : table[i].session_id = session_id}

\* No error of the environment has happened in the run so far.
NoFaultSoFar == faults = 0

\* C1: Repeating the incremental save without any change of the accumulator in
\* between adds no accomplishment row and no objective row: once an
\* incremental save has returned Ok, running save_current_data again on the
\* same accumulator leaves the session's rows of both tables as they are.
IncrementalSaveIsIdempotent ==
    \A p \in active :
        history[p].last_save = "ok" =>
            \A order \in Orders(current_session[p].tool_usage) :
                LET id == Unwrap(current_session_id[p])
                    again == save_current_data(current_session_id[p], current_session[p],
                                               test_mode[p], db, NoFault, order)
                IN  /\ IsSome(current_session_id[p])
                    /\ ~again.st.failed
                    /\ again.current_session_id = current_session_id[p]
                    /\ again.st.db.accomplishments = db.accomplishments
                    /\ again.st.db.accomplishment_files = db.accomplishment_files
                    /\ again.st.db.objectives = db.objectives
                    /\ SessionRows(db.accomplishments, id) # {}
                           \/ current_session[p].accomplishments = <<>>

\* An incremental save has returned Ok on an accumulator that holds two
\* accomplishments of the same description and an accomplishment with files.
RepeatedSaveHasWork ==
    \E p \in active :
        /\ history[p].last_save = "ok"
        /\ IsSome(current_session_id[p])
        /\ \E i, j \in DOMAIN current_session[p].accomplishments :
              /\ i < j
              /\ current_session[p].accomplishments[i].description =
                    current_session[p].accomplishments[j].description
        /\ \E i \in DOMAIN current_session[p].accomplishments :
              current_session[p].accomplishments[i].files_affected # <<>>
        /\ SessionRows(db.accomplishments, Unwrap(current_session_id[p])) # {}

\* C2: In a run without any error, no accomplishment and no objective of the
\* accumulator is stored as more than one row of its session, whatever saves
\* (incremental or final) the invocation has run.
NoItemStoredTwice ==
    \A p \in active :
        (NoFaultSoFar /\ IsSome(current_session_id[p])) =>
            LET id == Unwrap(current_session_id[p])
            IN  /\ \A i \in DOMAIN current_session[p].accomplishments :
                      Cardinality({k \in SessionRows(db.accomplishments, id) :
                                     db.accomplishments[k].description =
                                       current_session[p].accomplishments[i].description}) <= 1
                /\ \A i \in DOMAIN current_session[p].objectives :
                      Cardinality({k \in SessionRows(db.objectives, id) :
                                     db.objectives[k].objective =
                                       current_session[p].objectives[i]}) <= 1

\* C3: An invocation that has run to the end of its input has finalized its
\* session exactly once.
FinalizedExactlyOnce ==
    \A p \in active : pc[p] = "done" => history[p].finalizations = 1

\* C4: After an incremental save of a run without any error, tool_usage holds
\* for every tool of the accumulator exactly one row of the session, and that
\* row carries the tool's current count.
OneToolUsageRowPerTool ==
    \A p \in active :
        (NoFaultSoFar /\ history[p].last_save = "ok") =>
            \A tool \in DOMAIN current_session[p].tool_usage :
                LET rows == {k \in SessionRows(db.tool_usage, Unwrap(current_session_id[p])) :
                               db.tool_usage[k].tool_name = tool}
                IN  /\ Cardinality(rows) = 1
                    /\ \A k \in rows :
                          db.tool_usage[k].usage_count = current_session[p].tool_usage[tool]

\* The invocation is between two events and has not finalized.
BetweenEvents(p) == pc[p] = "reading" /\ history[p].finalizations = 0

\* The store holds the objectives, the accomplishments, the tool counts and
\* the duration of the accumulator of p.
SavedPartsStored(p) ==
    /\ IsSome(current_session_id[p])
    /\ LET id == Unwrap(current_session_id[p])
           session == current_session[p]
       IN  /\ \A i \in DOMAIN session.objectives :
                 ObjectiveExists(db, id, session.objectives[i])
           /\ \A i \in DOMAIN session.accomplishments :
                 \E k \in SessionRows(db.accomplishments, id) :
                    /\ db.accomplishments[k].description =
                          session.accomplishments[i].description
                    /\ db.accomplishments[k].category =
                          session.accomplishments[i].category
           /\ \A tool \in DOMAIN session.tool_usage :
                 \E k \in SessionRows(db.tool_usage, id) :
                    /\ db.tool_usage[k].tool_name = tool
                    /\ db.tool_usage[k].usage_count = session.tool_usage[tool]
           /\ db.sessions[id].total_duration_ms = session.total_duration_ms

\* The store holds the issues and the modified files of the accumulator of p.
FinalPartsStored(p) ==
    /\ IsSome(current_session_id[p])
    /\ LET id == Unwrap(current_session_id[p])
           session == current_session[p]
       IN  /\ \A i \in DOMAIN session.issues :
                 \E k \in SessionRows(db.issues, id) :
                    db.issues[k].issue = session.issues[i]
           /\ \A i \in DOMAIN session.files_modified :
                 \E k \in SessionRows(db.files_modified, id) :
                    db.files_modified[k].file_path = session.files_modified[i]

FinalizationFailureIsFatal ==
    \A p \in active : history[p].finalize_errors > 0 => pc[p] = "failed"

\* The event main hands process_event for a line that is not blank.
EventOf(line) ==
    IF IsSome(line.event) THEN Unwrap(line.event) ELSE simple_event(line.text)

\* The accumulator after every one of the lines has been folded in.
RECURSIVE FoldLines(_, _)
FoldLines(session, lines) ==
    IF lines = <<>> THEN session
    ELSE FoldLines(IF IsBlank(Head(lines)) THEN session
                   ELSE Accumulate(session, EventOf(Head(lines)), 0),
                   Tail(lines))

\* What the events contribute to a session: all but its times.
Contributions(session) ==
    [objectives |-> session.objectives,
     accomplishments |-> session.accomplishments,
     issues |-> session.issues,
     files_modified |-> session.files_modified,
     tool_usage |-> session.tool_usage,
     total_duration_ms |-> session.total_duration_ms]

\* The lines the invocation has consumed.
Consumed(p) == SubSeq(input, 1, pos[p] - 1)

NonBlank(lines) == {i \in DOMAIN lines : ~IsBlank(lines[i])}

\* C7: A failed incremental save leaves the invocation reading; the
\* accumulator holds the contributions of every consumed line whether or not
\* its save failed; every consumed line that is not blank has been processed,
\* and only an error of the reader stops the run before the end of input;
\* after an incremental save that returned Ok every objective and every
\* accomplishment of the accumulator, those of earlier failed saves included,
\* has a row.
SaveFailureKeepsRunAndState ==
    \A p \in active :
        /\ history[p].last_save = "err" =>
              pc[p] = "reading" /\ history[p].save_errors > 0
        /\ Contributions(current_session[p]) =
              Contributions(FoldLines(NewSession(StartTime[p]), Consumed(p)))
        /\ history[p].events_processed = Cardinality(NonBlank(Consumed(p)))
        /\ (pc[p] # "reading" /\ history[p].stopped_by \notin {"read", "panic"}) =>
              pos[p] > Len(input)
        /\ history[p].last_save = "ok" =>
              AllPersisted(current_session_id[p], current_session[p], db)

\* An incremental save failed leaving an objective or an accomplishment
\* without a row, and a later incremental save has returned Ok.
FailedSaveThenSuccessfulSave ==
    \E p \in active :
        /\ history[p].was_behind
        /\ history[p].save_errors > 0
        /\ history[p].last_save = "ok"
        /\ current_session[p].objectives # <<>>
        /\ current_session[p].accomplishments # <<>>

\* The store one invocation alone leaves, in a run without any error, when it
\* has processed the lines and has not yet finalized.
RECURSIVE AloneLoop(_, _, _, _)
AloneLoop(id, session, store, lines) ==
    IF lines = <<>> THEN store
    ELSE IF IsBlank(Head(lines)) THEN AloneLoop(id, session, store, Tail(lines))
    ELSE LET event == EventOf(Head(lines))
             folded == Accumulate(session, event, 0)
             r == RunSave(event.event_type = "session_end", id, folded, FALSE, store,
                          NoFault, CHOOSE o \in Orders(folded.tool_usage) : TRUE)
         IN  AloneLoop(r.current_session_id, folded, r.st.db, Tail(lines))

RunAlone(lines) == AloneLoop(None, NewSession(0), EmptyDb, lines)

\* C8: When two invocations have processed the same input against the same
\* store in a run without any error, and neither has finalized, the store
\* holds no more accomplishment rows and no more objective rows than one
\* invocation alone would have written for that input.
DuplicateInvocationAddsNoRows ==
    ( /\ active = Procs
      /\ NoFaultSoFar
      /\ \A p \in Procs : /\ pc[p] = "reading"
                           /\ pos[p] > Len(input)
                           /\ history[p].finalizations = 0 )
    => /\ Len(db.accomplishments) <= Len(RunAlone(input).accomplishments)
       /\ Len(db.objectives) <= Len(RunAlone(input).objectives)

\* The prompts of the events of the lines that process_event takes as
\* prompts, a line that does not parse being its own prompt.
RECURSIVE PromptsOf(_)
PromptsOf(lines) ==
    IF lines = <<>> THEN <<>>
    ELSE LET line == Head(lines)
             own == IF IsBlank(line) THEN <<>>
                    ELSE IF ~IsSome(line.event) THEN <<line.text>>
                    ELSE IF /\ Unwrap(line.event).event_type \in PromptEventTypes
                            /\ IsSome(Unwrap(line.event).user_prompt)
                    THEN <<Unwrap(Unwrap(line.event).user_prompt)>>
                    ELSE <<>>
         IN  own \o PromptsOf(Tail(lines))

\* C9 (as the spec states it): every line read from the input has yielded
\* exactly one processed event.
EveryLineYieldsOneEvent ==
    \A p \in active : history[p].events_processed = pos[p] - 1

\* C9 (amended): every line read from the input that is not empty once trimmed
\* has yielded exactly one processed event, a blank line none; a line that
\* does not parse has been processed as a prompt, so the objectives of the
\* session are, in order, the prompts of the prompt events and the raw texts of
\* the lines that do not parse (cut to 100 characters), one for each; and the
\* run goes on after such a line: nothing but an error of the reader stops it
\* before the end of input.
NonBlankLineYieldsOneEvent ==
    \A p \in active :
        /\ history[p].events_processed = Cardinality(NonBlank(Consumed(p)))
        /\ current_session[p].objectives =
              [i \in DOMAIN PromptsOf(Consumed(p)) |->
                  IF ByteLen(PromptsOf(Consumed(p))[i]) > 100
                  THEN TakeChars(PromptsOf(Consumed(p))[i], 100)
                  ELSE PromptsOf(Consumed(p))[i]]
        /\ (pc[p] # "reading" /\ history[p].stopped_by \notin {"read", "panic"}) =>
              pos[p] > Len(input)

\* The invocation has consumed a blank line and a line that does not parse,
\* and has finished.
RawAndBlankLinesConsumed ==
    \E p \in active :
        /\ pc[p] = "done"
        /\ \E i, j \in DOMAIN Consumed(p) :
              /\ IsBlank(input[i])
              /\ ~IsBlank(input[j])
              /\ ~IsSome(input[j].event)
        /\ current_session[p].objectives # <<>>

StartsWith(s, prefix) ==
    Len(s) >= Len(prefix) /\ SubSeq(s, 1, Len(prefix)) = prefix

\* The input of the end-to-end scenario.
ScenarioInput == <<PromptLine, EndLine>>

\* C10: After the run whose input is the user_prompt event "Fix the bug in
\* parser.go" followed by a session_end event, the accumulator holds exactly
\* one objective, equal to the prompt, exactly one accomplishment, of category
\* "Code Development" and with a description that starts with "Fixed code
\* issues:", no issue and an end time; and when the run has ended with status
\* 0 the sessions row of the run has a non-null end_time.
EndToEndScenario ==
    \A p \in active :
        (input = ScenarioInput /\ pos[p] > Len(input)) =>
            LET session == current_session[p]
            IN  /\ session.objectives = <<"Fix the bug in parser.go">>
                /\ Len(session.accomplishments) = 1
                /\ session.accomplishments[1].category = "Code Development"
                /\ StartsWith(session.accomplishments[1].description,
                              "Fixed code issues:")
                /\ session.issues = <<>>
                /\ IsSome(session.end_time)
                /\ pc[p] = "done" =>
                      /\ IsSome(current_session_id[p])
                      /\ IsSome(db.sessions[Unwrap(current_session_id[p])].end_time)

\* The run of the scenario has ended with status 0 and without any error.
ScenarioRunEnded ==
    \E p \in active :
        /\ input = ScenarioInput
        /\ pc[p] = "done"
        /\ NoFaultSoFar
        /\ history[p].events_processed = 2

\* The rows of the session that the store after holds more than db, in a table.
RowsAdded(after, table, id) ==
    Cardinality(SessionRows(after[table], id)) - Cardinality(SessionRows(db[table], id))

\* The invocation has just finalized with success.
JustFinalized(p) == history[p].last_final = "ok" /\ IsSome(current_session_id[p])

\* C11 (as the spec states it): in a run without any error, a second
\* finalization right after the first leaves the session with twice as many
\* issue, objective, accomplishment and tool-usage rows as the first left.
SecondFinalizationDoublesRows ==
    \A p \in active :
        (NoFaultSoFar /\ JustFinalized(p) /\ history[p].finalizations = 1) =>
            \A order \in Orders(current_session[p].tool_usage) :
                LET id == Unwrap(current_session_id[p])
                    again == save_session_to_db(current_session_id[p], current_session[p],
                                                test_mode[p], db, NoFault, order).st.db
                IN  \A table \in {"issues", "objectives", "accomplishments", "tool_usage"} :
                        Cardinality(SessionRows(again[table], id)) =
                            2 * Cardinality(SessionRows(db[table], id))

\* C11 (amended): a second finalization right after a finalization adds one
\* more row for every issue, objective, accomplishment and tool of the
\* accumulator, a second copy of what the first one inserted; the issue rows,
\* which nothing but a finalization writes, are then twice as many as after
\* the first finalization of a run without any error.
SecondFinalizationAddsACopy ==
    \A p \in active :
        JustFinalized(p) =>
            \A order \in Orders(current_session[p].tool_usage) :
                LET id == Unwrap(current_session_id[p])
                    session == current_session[p]
                    again == save_session_to_db(current_session_id[p], session,
                                                test_mode[p], db, NoFault, order).st.db
                IN  /\ RowsAdded(again, "issues", id) = Len(session.issues)
                    /\ RowsAdded(again, "objectives", id) = Len(session.objectives)
                    /\ RowsAdded(again, "accomplishments", id) = Len(session.accomplishments)
                    /\ RowsAdded(again, "tool_usage", id) =
                          Cardinality(DOMAIN session.tool_usage)
                    /\ (NoFaultSoFar /\ history[p].finalizations = 1) =>
                          Cardinality(SessionRows(again.issues, id)) =
                              2 * Cardinality(SessionRows(db.issues, id))

\* A finalization has succeeded on an accumulator with accomplishments and
\* tool counts that an incremental save had stored before.
FinalizedAfterIncrementalSave ==
    \E p \in active :
        /\ JustFinalized(p)
        /\ NoFaultSoFar
        /\ current_session[p].accomplishments # <<>>
        /\ DOMAIN current_session[p].tool_usage # {}
        /\ Cardinality(SessionRows(db.accomplishments, Unwrap(current_session_id[p])))
              = 2 * Len(current_session[p].accomplishments)

\* C12: Once the end time of the session is present, no step changes it.
EndTimeSetOnce ==
    [][\A p \in Procs :
          IsSome(current_session[p].end_time) =>
              current_session'[p].end_time = current_session[p].end_time]_vars

\* The sessions rows the invocation has inserted: those of its start time.
OwnSessionRows(p) ==
    {i \in DOMAIN db.sessions : db.sessions[i].start_time = current_session[p].start_time}

ChildTables == {"accomplishments", "objectives", "issues", "tool_usage", "files_modified"}

\* C13: An invocation has inserted at most one sessions row; its identifier is
\* absent exactly as long as it has inserted none (a failed allocation leaves
\* it absent) and is otherwise the id of that row; every child row in the
\* store carries the identifier of the invocation; and no step changes an
\* identifier that is present or lets its invocation insert another row.
SessionIdLazyAndFixed ==
    [][\A p \in active :
          /\ Cardinality(OwnSessionRows(p)') <= 1
          /\ IF IsSome(current_session_id'[p])
             THEN OwnSessionRows(p)' = {Unwrap(current_session_id'[p])}
             ELSE OwnSessionRows(p)' = {}
          /\ \A table \in ChildTables : \A k \in DOMAIN db'[table] :
                \E q \in active : current_session_id'[q] = Some(db'[table][k].session_id)
          /\ IsSome(current_session_id[p]) =>
                /\ current_session_id'[p] = current_session_id[p]
                /\ OwnSessionRows(p)' = OwnSessionRows(p)]_vars

\* An allocation has failed, a later save has allocated the identifier and
\* stored child rows under it.
AllocatedAfterFailedAllocation ==
    \E p \in active :
        /\ history[p].alloc_errors > 0
        /\ IsSome(current_session_id[p])
        /\ history[p].last_save = "ok"
        /\ SessionRows(db.accomplishments, Unwrap(current_session_id[p])) # {}

\* The lines of a text that are headers of a diary entry.
EntryHeaders(text) ==
    {i \in DOMAIN text : StartsWith(text[i], "=== DIARY ENTRY FOR ")}

\* C14: With test mode on, the store is never created nor written (no table,
\* no row), no session identifier is allocated, every save returns Ok, and
\* every finalization has printed one diary entry: when the run has ended,
\* the last lines printed are the report of the accumulator.
DryRunWritesNothing ==
    \A p \in active :
        test_mode[p] =>
            /\ db = NoStore
            /\ current_session_id[p] = None
            /\ history[p].save_errors = 0 /\ history[p].finalize_errors = 0
            /\ Cardinality(EntryHeaders(stdout[p])) = history[p].finalizations
            /\ pc[p] = "done" =>
                  \E category_order \in CategoryOrders(current_session[p].accomplishments) :
                  \E tool_order \in Orders(current_session[p].tool_usage) :
                  \E k \in EntryHeaders(stdout[p]) :
                      SubSeq(stdout[p], k + 1, Len(stdout[p])) =
                          generate_diary_content(current_session[p], category_order,
                                                 tool_order) \o << "" >>

\* A run in test mode has ended after two events that gave the accumulator
\* an objective, accomplishments and tool counts.
DryRunEnded ==
    \E p \in active :
        /\ test_mode[p]
        /\ pc[p] = "done"
        /\ history[p].events_processed = 2
        /\ current_session[p].objectives # <<>>
        /\ DOMAIN current_session[p].tool_usage # {}
        /\ stdout[p] # <<>>

\* The prompt the only line of the input gave process_event, once the
\* invocation has processed that line.
ProcessedPrompts(p) ==
    IF /\ Len(input) = 1 /\ pos[p] = 2 /\ ~IsBlank(input[1])
       /\ IsSome(EventOf(input[1]).user_prompt)
    THEN {Unwrap(EventOf(input[1]).user_prompt)}
    ELSE {}

\* The pattern groups a keyword of which the lower-cased prompt text holds.
GroupsOf == [prompt \in PromptTexts |-> MatchingPatterns(prompt)]

FirstGroup(prompt) == CHOOSE i \in GroupsOf[prompt] : \A j \in GroupsOf[prompt] : i <= j

\* C15: A processed prompt whose lower-cased text holds keywords of two or more
\* pattern groups has given the accumulator exactly one accomplishment, with
\* the category and the default description of the matching group that comes
\* first in the pattern table, wherever the keywords stand in the prompt.
CategoryPrecedence ==
    \A p \in active : \A prompt \in ProcessedPrompts(p) :
        Cardinality(GroupsOf[prompt]) >= 2 =>
            /\ Len(current_session[p].accomplishments) = 1
            /\ current_session[p].accomplishments[1].category =
                  patterns[FirstGroup(prompt)].category
            /\ StartsWith(current_session[p].accomplishments[1].description,
                          patterns[FirstGroup(prompt)].default_description)

\* "document Fix" is processed: the keyword of the fifth group stands before
\* the keyword of the second, and the accomplishment is the second group's.
LaterGroupKeywordFirst ==
    \E p \in active :
        /\ ProcessedPrompts(p) = {"document Fix"}
        /\ GroupsOf["document Fix"] = {2, 5}
        /\ current_session[p].accomplishments =
              << Accomplishment("Code Development", "Fixed code issues: document Fix",
                                None, <<>>) >>

\* The trimmed first line of each prompt text.
CleanedLines == [prompt \in PromptTexts |-> CleanedPrompt(prompt)]

\* The default phrase of the accomplishment of the prompt.
DefaultPhrase(prompt) ==
    IF GroupsOf[prompt] # {} THEN patterns[FirstGroup(prompt)].default_description
    ELSE "Worked on project task"

\* The description by the number of characters of the line.
DescriptionByCharacters(line, default) ==
    IF Len(line) > 80 THEN default \o ": " \o TakeChars(line, 77)
    ELSE IF Len(line) > 10 THEN default \o ": " \o line
    ELSE default

\* C16: No prompt stops the invocation in generate_accomplishment_description,
\* and the description of the accomplishment of a processed prompt is, for a
\* trimmed first line of more than 80 characters, the default phrase, a colon
\* and exactly the first 77 characters of the line; for 11 to 80 characters
\* the default phrase, a colon and the whole line; for 10 or fewer characters
\* the bare default phrase.
DescriptionTruncation ==
    \A p \in active :
        /\ history[p].stopped_by # "panic"
        /\ \A prompt \in ProcessedPrompts(p) :
              \A i \in DOMAIN current_session[p].accomplishments :
                 current_session[p].accomplishments[i].description =
                    DescriptionByCharacters(CleanedLines[prompt], DefaultPhrase(prompt))
\* What the extension patterns match in each prompt text.
AllMatches ==
    [prompt \in PromptTexts |->
        UNION {FindIter(prompt, file_patterns[i]) : i \in DOMAIN file_patterns}]

\* C17: The files of the accomplishment of a processed prompt are the matches
\* of all extension patterns in the prompt, in strictly ascending order of
\* their bytes, so none is repeated; for the text "edit src/main.rs and also
\* src/main.rs again plus README.md" they are exactly README.md, src/main.rs.
FilesSortedAndDeduplicated ==
    \A p \in active : \A prompt \in ProcessedPrompts(p) :
        \A i \in DOMAIN current_session[p].accomplishments :
            \E files \in {current_session[p].accomplishments[i].files_affected} :
                /\ Range(files) = AllMatches[prompt]
                /\ \A k \in 1..(Len(files) - 1) : StrLess(files[k], files[k + 1])
                /\ prompt = RepeatedFilesText => files = <<"README.md", "src/main.rs">>

\* The text that names src/main.rs twice and README.md once is processed and
\* its accomplishment lists the two files.
RepeatedFilesProcessed ==
    \E p \in active :
        /\ ProcessedPrompts(p) = {RepeatedFilesText}
        /\ Len(current_session[p].accomplishments) = 1
        /\ current_session[p].accomplishments[1].files_affected =
              <<"README.md", "src/main.rs">>
\* The sum of the duration_ms of the events of the lines that carry one.
RECURSIVE SumOfDurations(_)
SumOfDurations(lines) ==
    IF lines = <<>> THEN 0
    ELSE (IF ~IsBlank(Head(lines)) /\ IsSome(EventOf(Head(lines)).duration_ms)
          THEN Unwrap(EventOf(Head(lines)).duration_ms) ELSE 0)
         + SumOfDurations(Tail(lines))

\* C18: The total duration of the accumulator is the sum of the durations of
\* the events of the consumed lines, of whatever kind and in whatever order;
\* the tool-call events of 120 ms and of 380 ms give 500 ms in either order.
DurationAccumulates ==
    \A p \in active :
        /\ current_session[p].total_duration_ms = SumOfDurations(Consumed(p))
        /\ Consumed(p) \in {<<ToolLine, BashLine>>, <<BashLine, ToolLine>>} =>
              current_session[p].total_duration_ms = 500

\* The event of 380 ms and then the event of 120 ms have been processed.
BothToolCallsTimed ==
    \E p \in active :
        /\ Consumed(p) = <<BashLine, ToolLine>>
        /\ history[p].events_processed = 2
        /\ current_session[p].total_duration_ms = 500

\* The tool-call records named name in the events of the lines.
RECURSIVE RecordsNamed(_, _)
RecordsNamed(lines, name) ==
    IF lines = <<>> THEN 0
    ELSE (IF ~IsBlank(Head(lines)) /\ IsSome(EventOf(Head(lines)).tool_calls)
          THEN Cardinality({i \in DOMAIN Unwrap(EventOf(Head(lines)).tool_calls) :
                              Unwrap(EventOf(Head(lines)).tool_calls)[i].tool_name = name})
          ELSE 0)
         + RecordsNamed(Tail(lines), name)

ToolNames == {"Bash", "Edit", "Read"}

\* The count of the tool in the accumulator, 0 for a tool without an entry.
CountOf(p, name) ==
    IF name \in DOMAIN current_session[p].tool_usage
    THEN current_session[p].tool_usage[name] ELSE 0

\* C19: After every step the count of each tool name in the accumulator is the
\* number of tool-call records of that name in the events of the consumed
\* lines, of whatever kind, each record counted once; no tool without a record
\* has an entry; and no step lowers a count.
ToolCountsExactAndMonotone ==
    [][\A p \in active :
          /\ DOMAIN current_session'[p].tool_usage \subseteq ToolNames
          /\ \A name \in ToolNames :
                /\ CountOf(p, name)' = RecordsNamed(Consumed(p)', name)
                /\ CountOf(p, name)' >= CountOf(p, name)
                /\ name \in DOMAIN current_session'[p].tool_usage =>
                      CountOf(p, name)' > 0]_vars

\* A tool_call event with a Bash and an Edit record and a tool_result event
\* with two Bash records have been processed.
RecordsOfTwoEventsCounted ==
    \E p \in active :
        /\ Consumed(p) = <<ToolLine, ResultLine>>
        /\ CountOf(p, "Bash") = 3
        /\ CountOf(p, "Edit") = 1
\* The categories of the rows in the order of the first row of each.
RECURSIVE FirstOccurrences(_)
FirstOccurrences(rows) ==
    IF rows = <<>> THEN <<>>
    ELSE << Head(rows).category >>
         \o FirstOccurrences(SelectSeq(Tail(rows),
                                       LAMBDA row : row.category # Head(rows).category))

\* The sessions by descending start, those of the same start by ascending id.
RECURSIVE MostRecentFirst(_, _)
MostRecentFirst(sessions, ids) ==
    IF ids = {} THEN <<>>
    ELSE LET top == CHOOSE i \in ids :
                       \A j \in ids :
                          \/ sessions[i].start_time > sessions[j].start_time
                          \/ sessions[i].start_time = sessions[j].start_time /\ i <= j
         IN  << top >> \o MostRecentFirst(sessions, ids \ {top})

\* What a retrieval prints when the categories of every session come in the
\* order of their first accomplishment row.
ShownAsStated(store, limit) ==
    show_recent_entries(
        store, FALSE, limit,
        MostRecentFirst(store.sessions, DOMAIN store.sessions),
        [id \in DOMAIN store.sessions |->
            FirstOccurrences(RowsOf(store.accomplishments, id))],
        0).out

\* C20: A retrieval that returned Ok has printed the sessions of the store most
\* recent start first, the categories of each session in the order of the
\* first accomplishment row of each category, and the objectives in the order
\* of their rows; two retrievals of the same store with the same limit have
\* printed the same lines.
RetrievalOrder ==
    \A p \in active :
        (pc[p] = "done" /\ IsSome(history[p].shown)) =>
            /\ stdout[p] = ShownAsStated(Unwrap(history[p].shown).db,
                                         Unwrap(history[p].shown).limit)
            /\ \A q \in active :
                  (pc[q] = "done" /\ history[q].shown = history[p].shown) =>
                      stdout[q] = stdout[p]
\* The only line of the input, once the invocation has processed it as an
\* event of the kinds session_start, user_prompt and message.
ProcessedPromptEvents(p) ==
    IF /\ Len(input) = 1 /\ pos[p] = 2 /\ ~IsBlank(input[1])
       /\ EventOf(input[1]).event_type \in PromptEventTypes
    THEN {EventOf(input[1])}
    ELSE {}

\* The length of each prompt text in bytes.
PromptBytes == [prompt \in PromptTexts |-> ByteLen(prompt)]

\* What C21 says of a processed event, long(prompt) telling whether the prompt
\* is beyond the threshold of the "General" accomplishment.
OnePerPrompt(p, event, long(_)) ==
    /\ Len(current_session[p].accomplishments) <= 1
    /\ IF ~IsSome(event.user_prompt)
       THEN /\ current_session[p].objectives = <<>>
            /\ current_session[p].accomplishments = <<>>
       ELSE /\ Len(current_session[p].objectives) = 1
            /\ GroupsOf[Unwrap(event.user_prompt)] = {} =>
                  IF long(Unwrap(event.user_prompt))
                  THEN /\ Len(current_session[p].accomplishments) = 1
                       /\ current_session[p].accomplishments[1].category = "General"
                  ELSE current_session[p].accomplishments = <<>>

\* C21 (as the spec states it): a processed session_start, user_prompt or
\* message event has appended one objective when it has a prompt and none
\* otherwise, and at most one accomplishment; when no pattern matches, one
\* "General" accomplishment if the prompt has more than 20 characters and
\* none otherwise.
OneAccomplishmentPerPromptByCharacters ==
    \A p \in active : \A event \in ProcessedPromptEvents(p) :
        OnePerPrompt(p, event, LAMBDA prompt : Len(prompt) > 20)

\* C21 (amended): the same with the threshold counted in bytes: when no
\* pattern matches, one "General" accomplishment if the prompt has more than
\* 20 bytes and none otherwise.
OneAccomplishmentPerPrompt ==
    \A p \in active : \A event \in ProcessedPromptEvents(p) :
        OnePerPrompt(p, event, LAMBDA prompt : PromptBytes[prompt] > 20)

\* The prompt of 20 characters and 27 bytes that matches no pattern has been
\* processed and has given a "General" accomplishment.
ShortWidePromptIsGeneral ==
    \E p \in active : \E event \in ProcessedPromptEvents(p) :
        /\ event.user_prompt = Some(ShortWideText)
        /\ Len(ShortWideText) = 20
        /\ GroupsOf[ShortWideText] = {}
        /\ Len(current_session[p].objectives) = 1
        /\ Len(current_session[p].accomplishments) = 1
        /\ current_session[p].accomplishments[1].category = "General"
\* The tool-call records of the tool_call and tool_result events of the lines,
\* in the order of the lines and of the records.
RECURSIVE ToolRecords(_)
ToolRecords(lines) ==
    IF lines = <<>> THEN <<>>
    ELSE (IF /\ ~IsBlank(Head(lines))
             /\ EventOf(Head(lines)).event_type \in ToolEventTypes
             /\ IsSome(EventOf(Head(lines)).tool_calls)
          THEN Unwrap(EventOf(Head(lines)).tool_calls) ELSE <<>>)
         \o ToolRecords(Tail(lines))

HasStringFilePath(record) ==
    /\ IsSome(record.parameters)
    /\ "file_path" \in DOMAIN Unwrap(record.parameters)
    /\ Unwrap(record.parameters)["file_path"].kind = "string"

\* The file_path of the records that carry one, in the order of the records.
RECURSIVE PathsOf(_)
PathsOf(records) ==
    IF records = <<>> THEN <<>>
    ELSE (IF HasStringFilePath(Head(records))
          THEN << Unwrap(Head(records).parameters)["file_path"].str >> ELSE <<>>)
         \o PathsOf(Tail(records))

\* C23: The accomplishment of a tool-call record with a string file_path has
\* that path as its only affected file and the description "Modified <path>",
\* and the paths of these records are the modified-files list in their order;
\* the accomplishment of any other record has the description "Used <tool>
\* tool" and no affected file, and adds nothing to the modified-files list.
FilePathIsRecorded ==
    \A p \in active :
        \E records \in {ToolRecords(Consumed(p))} :
            /\ Len(current_session[p].accomplishments) = Len(records)
            /\ current_session[p].files_modified = PathsOf(records)
            /\ \A i \in DOMAIN records :
                  IF HasStringFilePath(records[i])
                  THEN /\ current_session[p].accomplishments[i].files_affected =
                             PathsOf(<< records[i] >>)
                       /\ current_session[p].accomplishments[i].description =
                             "Modified " \o PathsOf(<< records[i] >>)[1]
                  ELSE /\ current_session[p].accomplishments[i].files_affected = <<>>
                       /\ current_session[p].accomplishments[i].description =
                             "Used " \o records[i].tool_name \o " tool"

\* The records without parameters, with a numeric file_path and with the
\* file_path src/main.rs have been processed.
PathAndNoPathRecorded ==
    \E p \in active :
        /\ Consumed(p) = <<OddToolLine>>
        /\ current_session[p].files_modified = << "src/main.rs" >>
        /\ current_session[p].accomplishments[2].description = "Used Read tool"
        /\ current_session[p].accomplishments[3].description = "Modified src/main.rs"
        /\ current_session[p].accomplishments[3].files_affected = << "src/main.rs" >>
\* The error texts of the error events of the lines, in their order.
RECURSIVE ErrorTextsOf(_)
ErrorTextsOf(lines) ==
    IF lines = <<>> THEN <<>>
    ELSE (IF /\ ~IsBlank(Head(lines))
             /\ EventOf(Head(lines)).event_type = "error"
             /\ IsSome(EventOf(Head(lines)).error)
          THEN << Unwrap(EventOf(Head(lines)).error) >> ELSE <<>>)
         \o ErrorTextsOf(Tail(lines))

\* The issue of an error text, cut by the number of its characters.
IssueByCharacters(text) ==
    "Error encountered: "
    \o (IF Len(text) > 150 THEN TakeChars(text, 150) \o "..." ELSE text)

\* C24: The issues of the accumulator are one for each consumed error event
\* that carries a text, in their order: the whole text without the marker
\* "..." when the text has at most 150 characters, and its first 150
\* characters followed by the marker when it has more.
ErrorIssuesCutByCharacters ==
    \A p \in active :
        current_session[p].issues =
            [i \in DOMAIN ErrorTextsOf(Consumed(p)) |->
                IssueByCharacters(ErrorTextsOf(Consumed(p))[i])]
\* The rows of the session of invocation p in the table, none while it has no
\* session.
StoredFor(p, table) ==
    IF IsSome(current_session_id[p])
    THEN SessionRows(table, Unwrap(current_session_id[p])) ELSE {}

\* C25: A step without a finalization leaves the issues and files_modified
\* tables as they are; and when a run has ended with the Ok of its
\* finalization the session has exactly one issues row for every issue of the
\* accumulator and exactly one files_modified row for every distinct path of
\* its modified-files list.
IssuesAndFilesWrittenOnceAtTheEnd ==
    [][\A p \in active :
          /\ history'[p].finalizations = history[p].finalizations =>
                /\ db'.issues = db.issues
                /\ db'.files_modified = db.files_modified
          /\ (pc'[p] = "done" /\ history'[p].stopped_by = "end") =>
                /\ Cardinality(StoredFor(p, db.issues)') =
                      Len(current_session'[p].issues)
                /\ Cardinality(StoredFor(p, db.files_modified)') =
                      Cardinality(Range(current_session'[p].files_modified))]_vars
\* The texts generate_diary_content may return for the session.
Reports(session) ==
    {generate_diary_content(session, category_order, tool_order) :
        category_order \in CategoryOrders(session.accomplishments),
        tool_order \in Orders(session.tool_usage)}

\* Whether a line of the text starts with the title of the section.
HasSection(text, title) == \E i \in DOMAIN text : StartsWith(text[i], title)

\* C26: When a finalization in test mode has printed the report of the
\* session, generate_diary_content can return one text only for that session,
\* and the printed text holds the accomplishments, objectives, issues, tools
\* and files sections exactly when the accomplishments, the objectives, the
\* issues, the tool counts and the modified files of the session are not
\* empty.
ReportIsPureAndOmitsEmptySections ==
    \A p \in active :
        (test_mode[p] /\ history[p].last_final = "ok") =>
            /\ Cardinality(Reports(current_session[p])) = 1
            /\ HasSection(stdout[p], "### :check: **Accomplishments**")
                  <=> current_session[p].accomplishments # <<>>
            /\ HasSection(stdout[p], "### :target: **Session Objectives**")
                  <=> current_session[p].objectives # <<>>
            /\ HasSection(stdout[p], "### :warning: **Issues Encountered**")
                  <=> current_session[p].issues # <<>>
            /\ HasSection(stdout[p], "### :tools: **Tools Used**")
                  <=> DOMAIN current_session[p].tool_usage # {}
            /\ HasSection(stdout[p], "### :folder: **Files Modified**")
                  <=> current_session[p].files_modified # <<>>
\* The first accomplishment of the sequence with the description.
FirstWith(accomplishments, description) ==
    accomplishments[CHOOSE i \in DOMAIN accomplishments :
                       /\ accomplishments[i].description = description
                       /\ \A j \in DOMAIN accomplishments :
                             accomplishments[j].description = description => i <= j]

\* The file paths stored for the accomplishments row, in the order of their rows.
StoredFiles(acc_id) ==
    [i \in DOMAIN SelectSeq(db.accomplishment_files,
                            LAMBDA row : row.accomplishment_id = acc_id) |->
        SelectSeq(db.accomplishment_files,
                  LAMBDA row : row.accomplishment_id = acc_id)[i].file_path]

\* C27: Before any finalization, after an incremental save that returned Ok,
\* every distinct description of the accumulator's accomplishments has exactly
\* one accomplishments row of the session, with the category, the duration
\* and the files of the first accomplishment of that description, and the
\* session has no other accomplishments row; and every distinct objective
\* text has exactly one objectives row, and the session has no other.
OneRowPerDistinctDescription ==
    \A p \in active :
        (history[p].finalizations = 0 /\ history[p].last_save = "ok") =>
            /\ \A i \in DOMAIN current_session[p].accomplishments :
                  \E first \in {FirstWith(current_session[p].accomplishments,
                                           current_session[p].accomplishments[i].description)} :
                     /\ Cardinality({k \in StoredFor(p, db.accomplishments) :
                            db.accomplishments[k].description = first.description}) = 1
                     /\ \A k \in StoredFor(p, db.accomplishments) :
                           db.accomplishments[k].description = first.description =>
                              /\ db.accomplishments[k].category = first.category
                              /\ db.accomplishments[k].duration_ms = first.duration_ms
                              /\ StoredFiles(k) = first.files_affected
            /\ \A k \in StoredFor(p, db.accomplishments) :
                  \E i \in DOMAIN current_session[p].accomplishments :
                     current_session[p].accomplishments[i].description =
                        db.accomplishments[k].description
            /\ \A i \in DOMAIN current_session[p].objectives :
                  Cardinality({k \in StoredFor(p, db.objectives) :
                     db.objectives[k].objective = current_session[p].objectives[i]}) = 1
            /\ \A k \in StoredFor(p, db.objectives) :
                  \E i \in DOMAIN current_session[p].objectives :
                     current_session[p].objectives[i] = db.objectives[k].objective

\* The invocation takes no part in the step.
Stands(q) == pos'[q] = pos[q] /\ pc'[q] = pc[q]

\* The rows of a table that Belongs selects are the same rows, with the same
\* contents, after the step as before it.
SameRows(before, after, Belongs(_)) ==
    /\ {i \in DOMAIN after : Belongs(after[i])} = {i \in DOMAIN before : Belongs(before[i])}
    /\ \A i \in DOMAIN before : Belongs(before[i]) => after[i] = before[i]

\* The step changes no row of the session of invocation q, in no table.
SessionUntouched(q) ==
    \E id \in {Unwrap(current_session_id[q])} :
        /\ db'.sessions[id] = db.sessions[id]
        /\ \A table \in ChildTables :
              SameRows(db[table], db'[table], LAMBDA row : row.session_id = id)
        /\ SameRows(db.accomplishment_files, db'.accomplishment_files,
                    LAMBDA row : row.accomplishment_id \in SessionRows(db.accomplishments, id))

\* Two invocations that have a session have different identifiers, each the
\* id of the sessions row the invocation inserted itself.
DistinctSessionIds ==
    \A p \in active :
        IsSome(current_session_id[p]) =>
            /\ Unwrap(current_session_id[p]) \in OwnSessionRows(p)
            /\ \A q \in active \ {p} : current_session_id[q] # current_session_id[p]

\* After an incremental save that returned Ok every accomplishment and every
\* objective of the accumulator has a row in the invocation's own session,
\* whatever rows the other sessions hold.
OwnRowsStored ==
    \A p \in active :
        history[p].last_save = "ok" =>
            /\ \A i \in DOMAIN current_session[p].accomplishments :
                  \E k \in StoredFor(p, db.accomplishments) :
                      db.accomplishments[k].description =
                          current_session[p].accomplishments[i].description
            /\ \A i \in DOMAIN current_session[p].objectives :
                  \E k \in StoredFor(p, db.objectives) :
                      db.objectives[k].objective = current_session[p].objectives[i]

\* C28: Sessions of concurrent invocations are isolated: two invocations on
\* the same store have distinct session identifiers; the existence checks of
\* a save are answered from the rows of the invocation's own session alone, so
\* that every entry of its accumulator gets a row in its own session; and a
\* step of one invocation adds, removes and changes no row of the session of
\* another invocation.
SessionsIsolated ==
    [][ /\ DistinctSessionIds'
        /\ OwnRowsStored'
        /\ \A q \in active :
              (IsSome(current_session_id[q]) /\ Stands(q)) => SessionUntouched(q) ]_vars

\* Both invocations have saved the same description, each in its own session,
\* and both have a tool_usage row.
TwoSessionsSameDescription ==
    /\ active = Procs
    /\ \A p \in Procs : /\ IsSome(current_session_id[p])
                         /\ history[p].last_save = "ok"
                         /\ StoredFor(p, db.tool_usage) # {}
    /\ \E i \in StoredFor("p1", db.accomplishments), k \in StoredFor("p2", db.accomplishments) :
          db.accomplishments[i].description = db.accomplishments[k].description

====
